---- MODULE Spec2Model ----
(***************************************************************************)
(* A model of the caching proxy: the request dispatcher                    *)
(* (internal/proxy/proxy.go), the on-disk cache store with lazy and        *)
(* active expiration (internal/cache/filecache/filecache.go).              *)
(*                                                                         *)
(* Strings and byte slices are sequences of atoms.  An atom is one         *)
(* character wherever a string can reach a file of the cache (a header     *)
(* name, a header value, a body, a status), so that an offset in a file is *)
(* an index in the sequence.  Elsewhere an atom is either one character    *)
(* that the code treats specially (":", "|", a letter of a method name) or *)
(* a chunk of ordinary characters that the code never looks into ("/a").   *)
(* The one exception is LongValue, a header value of MaxScanTokenSize      *)
(* bytes kept as one atom of that size; it is stored by direct calls of    *)
(* the store only, where no two writers overlay.                           *)
(***************************************************************************)
EXTENDS Integers, Sequences, FiniteSets, TLC

VARIABLES
    timeout,       \* Cache.timeout, in clock ticks (0: entries never expire)
    uniqueByUser,  \* Proxy.uniqueByUser
    now,           \* the wall clock, in ticks
    files,         \* the cache directory: path -> [data, mtime, open]
    req,           \* the requests: id -> the handler's position (pc, io) and locals
    wr,            \* the population goroutines: id -> part -> "none", "go", "open",
                   \* "done", "failed"
    sweeper,       \* the position of the cleanUpOldFiles goroutine
    proc,          \* the process: the position of main, its arguments, its exit
    call           \* the last direct call of a cache operation and what it returned

vars == <<timeout, uniqueByUser, now, files, req, wr, sweeper, proc, call>>

----------------------------------------------------------------------------
(* Bounds of the model.                                                    *)

\* how many requests the server handles in one behaviour
MaxReq == 2
\* the last tick of the clock
MaxTime == 2

\* the oldest age the clock of SpecWalk tells apart
MaxAge == 2

\* the last tick of the clock of SpecSweep
MaxSweepTime == 3

----------------------------------------------------------------------------
(* Strings.                                                                *)

LF == "\n"

\* the characters of the header names and values of the model
Chars(a) ==
    CASE a = "Set-Cookie" -> <<"S", "e", "t", "-", "C", "o", "o", "k", "i", "e">>
      [] a = "set-cookie" -> <<"s", "e", "t", "-", "c", "o", "o", "k", "i", "e">>
      [] a = "X-Cache" -> <<"X", "-", "C", "a", "c", "h", "e">>
      [] a = "x-cache" -> <<"x", "-", "c", "a", "c", "h", "e">>
      [] a = "a=1" -> <<"a", "=", "1">>
      [] a = "b=2" -> <<"b", "=", "2">>
      [] a = "Hit from cloudfront" -> <<"H", "i", "t", " ", "f", "r", "o", "m", " ", "c", "l", "o", "u", "d", "f", "r", "o", "n", "t">>
      [] a = "HIT" -> <<"H", "I", "T">>
      [] a = "MISS" -> <<"M", "I", "S", "S">>
      [] OTHER -> <<a>>

Str(a) == Chars(a)

LowerLetters == <<"a","b","c","d","e","f","g","h","i","j","k","l","m",
                  "n","o","p","q","r","s","t","u","v","w","x","y","z">>
UpperLetters == <<"A","B","C","D","E","F","G","H","I","J","K","L","M",
                  "N","O","P","Q","R","S","T","U","V","W","X","Y","Z">>

\* unicode.ToUpper on one character
ToUpperChar(c) ==
    IF \E i \in 1..26 : LowerLetters[i] = c
    THEN UpperLetters[CHOOSE i \in 1..26 : LowerLetters[i] = c]
    ELSE c

\* strings.ToUpper
ToUpper(s) == [i \in 1..Len(s) |-> ToUpperChar(s[i])]

\* strings.Join(parts, sep)
RECURSIVE Join(_, _)
Join(parts, sep) ==
    IF Len(parts) = 0 THEN <<>>
    ELSE IF Len(parts) = 1 THEN parts[1]
    ELSE parts[1] \o sep \o Join(Tail(parts), sep)

Digits == <<"0","1","2","3","4","5","6","7","8","9">>

\* strconv.Itoa
RECURSIVE Itoa(_)
Itoa(n) ==
    IF n < 0 THEN <<"-">> \o Itoa(0 - n)
    ELSE IF n < 10 THEN <<Digits[n + 1]>>
    ELSE Itoa(n \div 10) \o <<Digits[(n % 10) + 1]>>

IsDigit(c) == \E i \in 1..10 : Digits[i] = c
DigitVal(c) == (CHOOSE i \in 1..10 : Digits[i] = c) - 1

RECURSIVE ParseDigits(_, _)
ParseDigits(s, acc) ==
    IF Len(s) = 0 THEN acc
    ELSE ParseDigits(Tail(s), acc * 10 + DigitVal(s[1]))

\* strconv.Atoi: [ok, val]; an optional sign, then one or more digits
Atoi(s) ==
    LET signed == Len(s) > 0 /\ s[1] \in {"+", "-"}
        body   == IF signed THEN Tail(s) ELSE s
    IN  IF Len(body) = 0 \/ \E i \in 1..Len(body) : ~IsDigit(body[i])
        THEN [ok |-> FALSE, val |-> 0]
        ELSE [ok |-> TRUE,
              val |-> IF signed /\ s[1] = "-"
                      THEN 0 - ParseDigits(body, 0)
                      ELSE ParseDigits(body, 0)]

----------------------------------------------------------------------------
(* The cache key (proxy.go, getRequestCacheKey).                           *)

\* md5.Sum and hex.EncodeToString, taken as collision free: the digest is
\* represented by its tagged preimage.  A hex digest holds no "-", so a
\* digest followed by "-status" is never another digest.
MD5Hex(raw) == <<"md5(">> \o raw \o <<")">>

\* http.Header.Get: the first value of the name, "" when there is none
HeaderGet(h, name) ==
    IF name \in DOMAIN h /\ Len(h[name]) > 0 THEN h[name][1] ELSE <<>>

\* http.Header.Set: the name gets exactly this one value
HeaderSet(h, name, value) ==
    [n \in DOMAIN h \cup {name} |-> IF n = name THEN <<value>> ELSE h[n]]

UserAgentName == Str("User-Agent")
CookieName == Str("Cookie")
XCacheName == Str("X-Cache")

\* getRequestCacheKey without the test of p.uniqueByUser
KeyPartsAlwaysUnique(unique, url, hdr) ==
    LET userAgent == HeaderGet(hdr, UserAgentName)
        cookies   == HeaderGet(hdr, CookieName)
    IN  <<url>>
        \o (IF userAgent # <<>> THEN <<userAgent>> ELSE <<>>)
        \o (IF cookies # <<>> THEN <<cookies>> ELSE <<>>)

\* getRequestCacheKey without the Cookie part
KeyPartsNoCookie(unique, url, hdr) ==
    LET userAgent == HeaderGet(hdr, UserAgentName)
    IN  <<url>>
        \o (IF unique /\ userAgent # <<>> THEN <<userAgent>> ELSE <<>>)

\* the parts joined into the raw key: the URL, then the User-Agent and the
\* Cookie values when uniqueness is on and the value is not empty
KeyParts(unique, url, hdr) ==
    LET userAgent == HeaderGet(hdr, UserAgentName)
        cookies   == HeaderGet(hdr, CookieName)
    IN  <<url>>
        \o (IF unique /\ userAgent # <<>> THEN <<userAgent>> ELSE <<>>)
        \o (IF unique /\ cookies # <<>> THEN <<cookies>> ELSE <<>>)

RawKey(unique, url, hdr) == Join(KeyParts(unique, url, hdr), <<"|">>)

getRequestCacheKey(unique, url, hdr) == MD5Hex(RawKey(unique, url, hdr))

----------------------------------------------------------------------------
(* The cache store (filecache.go).  The functions that touch the disk take  *)
(* the directory f and the clock t and return the directory they leave.     *)

folderPath == Str("./cache")

getFilePath(key) == folderPath \o <<"/">> \o key

StatusSuffix == Str("-status")
HeadersSuffix == Str("-headers")

Exists(f, path) == path \in DOMAIN f

\* os.Remove
Remove(f, path) == [p \in DOMAIN f \ {path} |-> f[p]]

\* the age test with >= in place of >
TooOldAtTimeout(mtime, t) == t - mtime >= timeout

\* time.Since(ModTime()) > c.timeout, at clock t
TooOld(mtime, t) == t - mtime > timeout

\* the file at path is older than the timeout at clock t
Expired(f, path, t) == TooOld(f[path].mtime, t)

\* the file a descriptor is of once its name was removed from the
\* directory: what the file holds, and the writers that hold a descriptor
\* of it; held is false while the name is in the directory
Named == [held |-> FALSE, data |-> <<>>, open |-> {}]

\* the place of a goroutine inside a reading call of the store: the call
\* of the system or the reading of the clock that comes next, the file of
\* the loop of deleteCacheByExpiration it is about (1, 2, 3), the
\* modification time that os.Stat returned, the bytes os.ReadFile has
\* read, and the file of its descriptor when the name is gone
IOAt(at, i, mtime) ==
    [at |-> at, i |-> i, mtime |-> mtime, data |-> <<>>, lost |-> Named]

\* no reading call is under way
NoIO == IOAt("none", 0, 0)

\* deleteCacheByExpiration returning early for negative timeouts only
EnteringAtZero == IF timeout < 0 THEN IOAt("exists", 0, 0) ELSE IOAt("stat", 1, 0)

\* deleteCacheByExpiration on entry: with no timeout it returns at once,
\* and the caller goes on to its own os.Stat
Entering == IF timeout <= 0 THEN IOAt("exists", 0, 0) ELSE IOAt("stat", 1, 0)

\* the keys the loop of deleteCacheByExpiration(key) goes through
ExpirationKeys(key) == <<key, key \o StatusSuffix, key \o HeadersSuffix>>

\* the loop of deleteCacheByExpiration after file i
NextFile(i) == IF i < 3 THEN IOAt("stat", i + 1, 0) ELSE IOAt("exists", 0, 0)

\* one step of the loop of deleteCacheByExpiration(key) at clock t: the
\* os.Stat of a file (a file that cannot be stat'ed ends the function),
\* the test of the age os.Stat returned, or the os.Remove that follows a
\* test; [f, io]
ExpirationStep(f, key, io, t) ==
    LET filePath == getFilePath(ExpirationKeys(key)[io.i])
    IN  IF io.at = "stat"
        THEN [f  |-> f,
              io |-> IF Exists(f, filePath)
                     THEN IOAt("since", io.i, f[filePath].mtime)
                     ELSE IOAt("exists", 0, 0)]
        ELSE IF io.at = "since"
        THEN [f  |-> f,
              io |-> IF TooOld(io.mtime, t) THEN IOAt("remove", io.i, 0)
                     ELSE NextFile(io.i)]
        ELSE [f |-> Remove(f, filePath), io |-> NextFile(io.i)]

\* the loop of deleteCacheByExpiration from io to its end when nothing
\* runs between its steps
RECURSIVE ExpirationLoop(_, _, _, _)
ExpirationLoop(f, key, io, t) ==
    IF io.at = "exists" THEN f
    ELSE LET s == ExpirationStep(f, key, io, t)
         IN  ExpirationLoop(s.f, key, s.io, t)

\* deleteCacheByExpiration, when nothing runs between its steps
deleteCacheByExpiration(f, key, t) == ExpirationLoop(f, key, Entering, t)

\* os.Open of os.ReadFile setting the modification time of the file
OpenTouching(f, filePath, t) ==
    IF Exists(f, filePath) THEN [f EXCEPT ![filePath].mtime = t] ELSE f

\* os.Open of os.ReadFile, and the reads on its descriptor: the directory
\* and the files are left as they are
Open(f, filePath, t) == f

\* one call of the system, or one reading of the clock, of the reading
\* call Has(key), or Get(key) when reads, at io: a step of
\* deleteCacheByExpiration, the os.Stat that follows it and ends Has, and
\* in Get the steps of os.ReadFile: os.Open (with the fstat that sizes
\* the buffer: 512 bytes at least, and more than the file holds), then one
\* read after the other, each taking the bytes the file holds beyond those
\* already read, until a read finds none (the deferred Close goes with
\* it); [f, io, done, data, ok]
ReadStep(f, key, io, t, reads) ==
    LET at == IF io.at = "none" THEN Entering ELSE io
        filePath == getFilePath(key)
        going(to) == [f |-> f, io |-> to, done |-> FALSE, data |-> <<>>, ok |-> FALSE]
        ending(data, ok) == [f |-> f, io |-> NoIO, done |-> TRUE, data |-> data, ok |-> ok]
    IN  IF at.at \in {"stat", "since", "remove"}
        THEN LET s == ExpirationStep(f, key, at, t)
             IN  [f |-> s.f, io |-> s.io, done |-> FALSE, data |-> <<>>, ok |-> FALSE]
        ELSE IF at.at = "exists"
        THEN IF ~reads THEN ending(<<>>, Exists(f, filePath))
             ELSE IF Exists(f, filePath) THEN going(IOAt("open", 0, 0))
             ELSE ending(<<>>, FALSE)
        ELSE IF at.at = "open"
        THEN IF Exists(f, filePath)
             THEN [going(IOAt("read", 0, 0)) EXCEPT !.f = Open(f, filePath, t)]
             ELSE ending(<<>>, FALSE)
        ELSE LET held == IF at.lost.held THEN at.lost.data ELSE f[filePath].data
                 read == SubSeq(held, Len(at.data) + 1, Len(held))
             IN  IF read = <<>> THEN ending(at.data, TRUE)
                 ELSE going([at EXCEPT !.data = @ \o read])

\* a reading call from io to its return, when nothing runs between its
\* steps: [f, data, ok]
RECURSIVE ReadLoop(_, _, _, _, _)
ReadLoop(f, key, io, t, reads) ==
    LET s == ReadStep(f, key, io, t, reads)
    IN  IF s.done THEN [f |-> s.f, data |-> s.data, ok |-> s.ok]
        ELSE ReadLoop(s.f, key, s.io, t, reads)

\* Cache.Has, when nothing runs between its steps: [f, ok]
Has(f, key, t) ==
    LET out == ReadLoop(f, key, NoIO, t, FALSE)
    IN  [f |-> out.f, ok |-> out.ok]

\* Cache.Get, when nothing runs between its steps: [f, data, ok]
Get(f, key, t) == ReadLoop(f, key, NoIO, t, TRUE)

\* Cache.GetInt on what Get returned: [val, ok]
IntOf(got) ==
    LET intValue == Atoi(got.data)
    IN  IF ~got.ok THEN [val |-> 0, ok |-> FALSE]
        ELSE IF ~intValue.ok THEN [val |-> 0, ok |-> FALSE]
        ELSE [val |-> intValue.val, ok |-> TRUE]

\* Cache.GetInt, when nothing runs between its steps: [f, val, ok]
GetInt(f, key, t) ==
    LET got == Get(f, key, t)
    IN  [f |-> got.f, val |-> IntOf(got).val, ok |-> IntOf(got).ok]

\* bufio.ScanLines: the lines of data, each without its line feed and
\* without one trailing carriage return; a last line with no line feed
\* counts when it is not empty
DropCR(line) ==
    IF Len(line) > 0 /\ line[Len(line)] = "\r"
    THEN SubSeq(line, 1, Len(line) - 1) ELSE line

RECURSIVE ScanLines(_, _)
ScanLines(data, cur) ==
    IF Len(data) = 0
    THEN IF Len(cur) = 0 THEN <<>> ELSE <<DropCR(cur)>>
    ELSE IF data[1] = LF
         THEN <<DropCR(cur)>> \o ScanLines(Tail(data), <<>>)
         ELSE ScanLines(Tail(data), Append(cur, data[1]))

\* bufio.MaxScanTokenSize: the Scanner of GetHeaders gives up on a line
\* that does not fit its buffer
MaxScanTokenSize == 65536

\* an atom that stands for a header value of 65536 characters
LongValue == "v65536"

\* the number of bytes of an atom: the atoms of the model other than
\* LongValue are short, and a line of them is far below the limit
AtomSize(a) == IF a = LongValue THEN MaxScanTokenSize ELSE 1

RECURSIVE ByteLen(_)
ByteLen(s) == IF Len(s) = 0 THEN 0 ELSE AtomSize(s[1]) + ByteLen(Tail(s))

\* scanner.Err() is bufio.ErrTooLong: some line fills the whole buffer
\* before its line feed
ErrTooLong(lines) ==
    \E i \in 1..Len(lines) : ByteLen(lines[i]) >= MaxScanTokenSize

\* the index of the first ": " in line, 0 when there is none
SepIndex(line) ==
    LET at == {i \in 1..(Len(line) - 1) : line[i] = ":" /\ line[i + 1] = " "}
    IN  IF at = {} THEN 0 ELSE CHOOSE i \in at : \A j \in at : i <= j

\* textproto.CanonicalMIMEHeaderKey on the header names of the model
CanonicalMIMEHeaderKey(name) ==
    IF name = Str("x-cache") THEN Str("X-Cache")
    ELSE IF name = Str("set-cookie") THEN Str("Set-Cookie")
    ELSE IF name = Str("content-type") THEN Str("Content-Type")
    ELSE name

\* http.Header.Add: the value is appended to the values of the canonical name
HeaderAdd(h, name, value) ==
    LET key == CanonicalMIMEHeaderKey(name)
    IN  [n \in DOMAIN h \cup {key} |->
            IF n = key
            THEN (IF key \in DOMAIN h THEN h[key] ELSE <<>>) \o <<value>>
            ELSE h[n]]

EmptyHeader == [n \in {} |-> <<>>]

\* the loop of GetHeaders over the scanned lines: [h, ok]
RECURSIVE ParseHeaderLines(_, _)
ParseHeaderLines(lines, h) ==
    IF Len(lines) = 0 THEN [h |-> h, ok |-> TRUE]
    ELSE LET line == lines[1]
             i == SepIndex(line)
         IN  IF line = <<>> THEN ParseHeaderLines(Tail(lines), h)
             ELSE IF i = 0 THEN [h |-> EmptyHeader, ok |-> FALSE]
             ELSE ParseHeaderLines(Tail(lines),
                      HeaderAdd(h, SubSeq(line, 1, i - 1),
                                   SubSeq(line, i + 2, Len(line))))

\* Cache.GetHeaders on what Get returned: [h, ok]
HeadersOf(got) ==
    LET lines == ScanLines(got.data, <<>>)
        parsed == ParseHeaderLines(lines, EmptyHeader)
    IN  IF ~got.ok THEN [h |-> EmptyHeader, ok |-> FALSE]
        ELSE IF ~parsed.ok \/ ErrTooLong(lines)
             THEN [h |-> EmptyHeader, ok |-> FALSE]
        ELSE [h |-> parsed.h, ok |-> TRUE]

\* Cache.GetHeaders, when nothing runs between its steps: [f, h, ok]
GetHeaders(f, key, t) ==
    LET got == Get(f, key, t)
    IN  [f |-> got.f, h |-> HeadersOf(got).h, ok |-> HeadersOf(got).ok]

\* the bytes SetInt hands to Set
IntBytes(value) == Itoa(value)

\* the bytes SetHeaders hands to Set: one "Name: Value" line per value; the
\* names come in the order of Go's map iteration, which is any order
RECURSIVE ValueLines(_, _)
ValueLines(name, values) ==
    IF Len(values) = 0 THEN <<>>
    ELSE name \o <<":", " ">> \o values[1] \o <<LF>>
         \o ValueLines(name, Tail(values))

RECURSIVE HeaderBytes(_, _)
HeaderBytes(headers, order) ==
    IF Len(order) = 0 THEN <<>>
    ELSE ValueLines(order[1], headers[order[1]])
         \o HeaderBytes(headers, Tail(order))

\* the orders in which a map with these names can be iterated
Orders(names) ==
    {o \in [1..Cardinality(names) -> names] :
        \A i, j \in 1..Cardinality(names) : i # j => o[i] # o[j]}

\* os.Create by writer who: the file is created empty, or an existing file
\* is truncated; open is the set of the writers that hold a descriptor of
\* the file
Create(f, filePath, t, who) ==
    [p \in DOMAIN f \cup {filePath} |->
        IF p = filePath
        THEN [data  |-> <<>>,
              mtime |-> t,
              open  |-> IF filePath \in DOMAIN f THEN f[filePath].open \cup {who}
                        ELSE {who}]
        ELSE f[p]]

\* file.Close by writer who
Close(f, filePath, who) ==
    IF filePath \in DOMAIN f /\ who \in f[filePath].open
    THEN [f EXCEPT ![filePath].open = @ \ {who}]
    ELSE f

\* file.Write on the descriptor os.Create returned to writer who, and the
\* deferred file.Close: the bytes go to offset 0 of the file the descriptor
\* is of, which the directory no longer holds when the name was removed
\* since
Write(f, filePath, t, value, who) ==
    IF filePath \in DOMAIN f /\ who \in f[filePath].open /\ Len(value) > 0
    THEN Close([f EXCEPT ![filePath].data =
                        value \o SubSeq(@, Len(value) + 1, Len(@)),
                      ![filePath].mtime = t],
               filePath, who)
    ELSE Close(f, filePath, who)

\* Cache.Set, from os.Create to file.Write, when nothing runs between them
Set(f, key, t, value) ==
    LET caller == 0
    IN  Write(Create(f, getFilePath(key), t, caller), getFilePath(key), t, value, caller)

\* ClearAll keeping the files that have not expired
ClearAllExpired(f, stuck) ==
    [p \in {q \in DOMAIN f : q \in stuck \/ now - f[q].mtime <= timeout} |-> f[p]]

\* Cache.ClearAll after os.ReadDir: os.RemoveAll is called on every name
\* of the directory; on the names in stuck it fails, which is logged, and
\* the loop goes on
ClearAll(f, stuck) == [p \in DOMAIN f \cap stuck |-> f[p]]

----------------------------------------------------------------------------
(* The inputs of the model.                                                *)

MethodGet == <<"G","E","T">>
MethodHead == <<"H","E","A","D">>
MethodOptions == <<"O","P","T","I","O","N","S">>
MethodPost == <<"P","O","S","T">>

\* the methods a client sends; net/http hands the method to the handler as
\* it was sent, in any letter case
Methods == {MethodGet, MethodPost, <<"g","e","t">>}

Header1(name, value) == [n \in {name} |-> <<value>>]

\* a request: its URL (r.URL.String()) and its headers
ProxiedURL == Str("/a")
ProxiedHeader == Header1(UserAgentName, Str("u1"))

\* the responses of the origin: header names are canonical, as http.Client
\* returns them, and every name has at least one value
PlainResponse ==
    [status |-> 200,
     header |-> [n \in {Str("Set-Cookie")} |-> <<Str("a=1"), Str("b=2")>>],
     body   |-> <<"p", "q">>]

TaggedResponse ==
    [status |-> 503,
     header |-> Header1(XCacheName, Str("Hit from cloudfront")),
     body   |-> <<>>]

\* two responses spelled byte by byte, every atom one character, so that
\* a write over the bytes of another write leaves what the disk would hold
OkResponse ==
    [status |-> 200,
     header |-> Header1(Str("A"), Str("1")),
     body   |-> <<"p", "q">>]

UnavailableResponse ==
    [status |-> 503,
     header |-> Header1(Str("B"), <<"2", "3", "4">>),
     body   |-> <<"z">>]

NotFoundResponse ==
    [status |-> 404,
     header |-> Header1(Str("A"), Str("1")),
     body   |-> <<"n">>]

\* the origin answers with a client error or with a server error
StatusResponses == {NotFoundResponse, UnavailableResponse}

ByteResponses == {OkResponse, UnavailableResponse}

OriginResponses == {PlainResponse, TaggedResponse}

\* the ways the fetch fails: getResponseFromOrigin returns an error
\* (http.NewRequest or client.Do failed), or io.ReadAll does
FetchFailures == {"getResponseFromOrigin", "ReadAll"}

\* the cache timeouts, in ticks, with expiration on
ExpiringTimeouts == {1}

Requests == 1..MaxReq

Parts == {"body", "status", "headers"}

----------------------------------------------------------------------------
(* The command line (argparser.go).  An origin is a sequence of atoms: the *)
(* characters ":", "/", "?", "#", "@" and names (a scheme, a host, a path  *)
(* segment), which hold none of these characters.                          *)

\* strings.ToLower on the scheme names of the model
ToLowerName(name) ==
    IF name = "HTTPS" THEN "https"
    ELSE IF name = "HTTP" THEN "http"
    ELSE name

IsName(a) == a \notin {":", "/", "?", "#", "@"}

\* the index of the first a in s, 0 when there is none
IndexOf(s, a) ==
    LET at == {i \in 1..Len(s) : s[i] = a}
    IN  IF at = {} THEN 0 ELSE CHOOSE i \in at : \A j \in at : i <= j

\* the index of the last a in s, 0 when there is none
LastIndexOf(s, a) ==
    LET at == {i \in 1..Len(s) : s[i] = a}
    IN  IF at = {} THEN 0 ELSE CHOOSE i \in at : \A j \in at : i >= j

HasPrefix(s, prefix) ==
    Len(s) >= Len(prefix) /\ SubSeq(s, 1, Len(prefix)) = prefix

\* url.getScheme: [ok, scheme, rest]
getScheme(rawURL) ==
    IF Len(rawURL) > 0 /\ rawURL[1] = ":"
    THEN [ok |-> FALSE, scheme |-> "", rest |-> <<>>]
    ELSE IF Len(rawURL) > 1 /\ IsName(rawURL[1]) /\ rawURL[2] = ":"
    THEN [ok |-> TRUE, scheme |-> rawURL[1], rest |-> SubSeq(rawURL, 3, Len(rawURL))]
    ELSE [ok |-> TRUE, scheme |-> "", rest |-> rawURL]

\* url.validOptionalPort: nothing, or ":" and then digits only
validOptionalPort(port) ==
    \/ port = <<>>
    \/ /\ port[1] = ":"
       /\ \A i \in 2..Len(port) : IsDigit(port[i])

\* url.parseHost: a host holds no "#" and no "@", and what follows its last
\* ":" is a port
parseHostOK(host) ==
    /\ \A i \in 1..Len(host) : host[i] \notin {"#", "@", "/", "?"}
    /\ LET colon == LastIndexOf(host, ":")
       IN  colon > 0 => validOptionalPort(SubSeq(host, colon, Len(host)))

\* url.validUserinfo
validUserinfo(user) ==
    \A i \in 1..Len(user) : IsName(user[i]) \/ user[i] \in {":", "@"}

NoURL ==
    [ok |-> FALSE, Scheme |-> "", Opaque |-> <<>>, User |-> <<>>, Host |-> <<>>,
     Path |-> <<>>, ForceQuery |-> FALSE, RawQuery |-> <<>>, Fragment |-> <<>>]

\* url.ParseRequestURI: url.parse with viaRequest, which keeps a "#" where
\* it stands and refuses a URL with no scheme and no leading "/"
ParseRequestURI(rawURL) ==
    LET sch == getScheme(rawURL)
        mark == IndexOf(sch.rest, "?")
        force == mark > 0 /\ mark = Len(sch.rest)
        rest1 == IF mark = 0 THEN sch.rest ELSE SubSeq(sch.rest, 1, mark - 1)
        query == IF mark = 0 THEN <<>> ELSE SubSeq(sch.rest, mark + 1, Len(sch.rest))
        base == [NoURL EXCEPT !.ok = TRUE, !.Scheme = ToLowerName(sch.scheme),
                              !.ForceQuery = force, !.RawQuery = query]
        auth == SubSeq(rest1, 3, Len(rest1))
        slash == IndexOf(auth, "/")
        authority == IF slash = 0 THEN auth ELSE SubSeq(auth, 1, slash - 1)
        path == IF slash = 0 THEN <<>> ELSE SubSeq(auth, slash, Len(auth))
        at == LastIndexOf(authority, "@")
        host == SubSeq(authority, at + 1, Len(authority))
    IN  IF rawURL = <<>> \/ ~sch.ok THEN NoURL
        ELSE IF ~HasPrefix(rest1, <<"/">>)
             THEN IF sch.scheme # "" THEN [base EXCEPT !.Opaque = rest1]
                  ELSE NoURL
        ELSE IF sch.scheme # "" /\ HasPrefix(rest1, <<"/", "/">>)
             THEN IF ~validUserinfo(SubSeq(authority, 1, at - 1)) \/ ~parseHostOK(host)
                  THEN NoURL
                  ELSE [base EXCEPT !.User = SubSeq(authority, 1, at - 1),
                                    !.Host = host, !.Path = path]
        ELSE [base EXCEPT !.Path = rest1]

\* getValidOriginURL: the parsed URL, ok when the origin is accepted
getValidOriginURL(origin) ==
    LET parsedURL == ParseRequestURI(origin)
    IN  IF ~parsedURL.ok THEN NoURL
        ELSE IF parsedURL.Scheme = "" \/ parsedURL.Scheme \notin {"http", "https"}
             THEN NoURL
        ELSE IF \/ parsedURL.Host = <<>> \/ parsedURL.Path # <<>>
                \/ parsedURL.RawQuery # <<>> \/ parsedURL.Fragment # <<>>
             THEN NoURL
        ELSE parsedURL

\* isValidPort
isValidPort(port) == port > 0 /\ port <= 65535

----------------------------------------------------------------------------
(* The request dispatcher (proxy.go).                                      *)

\* isNotSafeMethod with POST in the list of safe methods
isNotSafeMethodButPost(method) ==
    ToUpper(method) \notin {MethodGet, MethodHead, MethodOptions, MethodPost}

\* isNotSafeMethod
isNotSafeMethod(method) ==
    ToUpper(method) \notin {MethodGet, MethodHead, MethodOptions}

\* hasRequestInCache: Has(key) && Has(key-status) && Has(key-headers),
\* the later calls made only when the earlier ones returned true; [f, ok]
hasRequestInCache(f, key, t) ==
    LET h1 == Has(f, key, t)
        h2 == Has(h1.f, key \o StatusSuffix, t)
        h3 == Has(h2.f, key \o HeadersSuffix, t)
    IN  IF ~h1.ok THEN h1
        ELSE IF ~h2.ok THEN h2
        ELSE h3

\* for name := range h { w.Header().Set(name, h.Get(name)) }
CopyHeaders(wh, h) ==
    [n \in DOMAIN wh \cup DOMAIN h |->
        IF n \in DOMAIN h THEN <<HeaderGet(h, n)>> ELSE wh[n]]

NoResponse == [header |-> EmptyHeader, status |-> 0, body |-> <<>>]

\* http.Error called with http.StatusOK
HttpErrorStatusOK(w, msg) ==
    [header |-> HeaderSet(HeaderSet(w.header, Str("Content-Type"),
                                    Str("text/plain; charset=utf-8")),
                          Str("X-Content-Type-Options"), Str("nosniff")),
     status |-> 200,
     body   |-> <<msg, LF>>]

\* http.Error(w, msg, 500)
HttpError(w, msg) ==
    [header |-> HeaderSet(HeaderSet(w.header, Str("Content-Type"),
                                    Str("text/plain; charset=utf-8")),
                          Str("X-Content-Type-Options"), Str("nosniff")),
     status |-> 500,
     body   |-> <<msg, LF>>]

\* the response responseFromCache writes; [f, w]
responseFromCache(f, w, cacheKey, t) ==
    LET data    == Get(f, cacheKey, t)
        headers == GetHeaders(data.f, cacheKey \o HeadersSuffix, t)
        status  == GetInt(headers.f, cacheKey \o StatusSuffix, t)
    IN  [f |-> status.f,
         w |-> [header |-> IF headers.ok THEN CopyHeaders(w.header, headers.h)
                           ELSE w.header,
                \* with no WriteHeader call the first Write sends 200
                status |-> IF status.ok THEN status.val ELSE 200,
                body   |-> data.data]]

\* the response proxyRequest writes for the origin's response resp
responseFromOrigin(w, resp) ==
    [header |-> CopyHeaders(w.header, resp.header),
     status |-> resp.status,
     body   |-> resp.body]

\* proxyRequest starting no goroutine for the headers
dispatchWithoutHeaders(caching) ==
    [p \in Parts |-> IF caching /\ p # "headers" THEN "go" ELSE "none"]

\* the goroutines proxyRequest starts: one per part when caching is on
dispatch(caching) == [p \in Parts |-> IF caching THEN "go" ELSE "none"]

\* main has parsed valid arguments and called Proxy.Start
Serving ==
    [pc |-> "listening", parses |-> TRUE, clearCache |-> FALSE, help |-> FALSE,
     port |-> 3000, origin |-> <<"https", ":", "/", "/", "github.com">>,
     creatable |-> TRUE, listable |-> TRUE, failed |-> {},
     populated |-> 0, exit |-> -1]

\* a direct call of a cache operation: its name, its key, its argument,
\* what it returned, whether of the three files of key the body alone was
\* stored when the call began, and, while a reading call is under way, the
\* call of Has or Get it is in (pc) and the place inside it (io)
Called(op, key, arg, ret, onlyBody) ==
    [op |-> op, key |-> key, arg |-> arg, ret |-> ret, onlyBody |-> onlyBody,
     pc |-> "returned", io |-> NoIO]

NoCall == Called("none", <<>>, <<>>, <<>>, FALSE)

\* request r was answered by the origin and its three writes are complete
Populated(r) ==
    /\ req[r].pc = "done" /\ req[r].src = "origin" /\ req[r].caching
    /\ \A part \in Parts : wr[r][part] = "done"

\* a request before its dispatch; pc is the call its handler is in and io
\* the place inside a reading call of the store; ops will collect the
\* names of the cache operations the request calls, after the requests
\* that were answered and stored in full when the hit check of the request
\* began, and stale the files of its entry that were older than the timeout
\* at that moment
IdleRequest ==
    [pc |-> "idle", io |-> NoIO, method |-> <<>>, url |-> <<>>,
     header |-> EmptyHeader, caching |-> FALSE, key |-> <<>>, w |-> NoResponse,
     src |-> "none", resp |-> NoResponse, ops |-> {}, after |-> {},
     stale |-> {}]

\* the goroutine of cleanUpOldFiles at one place of its code: the end of
\* its sleep, the error of its last walk, the names its walk has still to
\* visit, the removals that failed in the walk, whether the disk refused
\* the listing of the directory or the removal of a file in the last walk,
\* whether the clock ever advanced while a walk was due or under way,
\* whether it ever advanced after a walk in which the disk refused a call,
\* and the modification time that Lstat returned for the name the callback
\* is called with
SweeperAt(pc) ==
    [pc |-> pc, wake |-> 0, err |-> FALSE, names |-> <<>>, failed |-> {},
     refused |-> FALSE, late |-> FALSE, denied |-> FALSE, mtime |-> 0]

\* the server after main has built the cache and the proxy and started the
\* sweeper, on an empty cache directory
Boot ==
    /\ now = 0
    /\ files = [p \in {} |-> 0]
    /\ req = [r \in Requests |-> IdleRequest]
    /\ wr = [r \in Requests |-> [p \in Parts |-> "none"]]
    /\ sweeper = SweeperAt("start")
    /\ proc = Serving
    /\ call = NoCall

\* the request after the call of Has that decided the lookup, or before
\* the next call of Has
Looked(q, ok, last) ==
    IF ~ok
    THEN [q EXCEPT !.pc = "proxy", !.io = NoIO, !.caching = TRUE,
                   !.w.header = HeaderSet(q.w.header, XCacheName, Str("MISS"))]
    ELSE IF last
    THEN [q EXCEPT !.pc = "hit", !.io = NoIO,
                   !.w.header = HeaderSet(q.w.header, XCacheName, Str("HIT"))]
    ELSE [q EXCEPT !.pc = IF q.pc = "has-status" THEN "has-headers" ELSE "has-status",
                   !.io = NoIO]

\* the key of the store call the handler of request q is in: Has(key),
\* Has(key-status), Has(key-headers) of hasRequestInCache, then Get(key),
\* GetHeaders(key-headers), GetInt(key-status) of responseFromCache
CallKey(q) ==
    IF q.pc \in {"has-status", "hit-status"} THEN q.key \o StatusSuffix
    ELSE IF q.pc \in {"has-headers", "hit-headers"} THEN q.key \o HeadersSuffix
    ELSE q.key

\* the requests rq after a step that took the directory from f to g: a
\* request that reads on a descriptor of a file whose name the step
\* removed keeps the file, with what it held
Unlinked(rq, f, g) ==
    [q \in DOMAIN rq |->
        LET filePath == getFilePath(CallKey(rq[q]))
        IN  IF /\ rq[q].io.at = "read" /\ ~rq[q].io.lost.held
               /\ Exists(f, filePath) /\ ~Exists(g, filePath)
            THEN [rq[q] EXCEPT !.io.lost = [held |-> TRUE,
                                            data |-> f[filePath].data,
                                            open |-> f[filePath].open]]
            ELSE rq[q]]

\* the requests rq after file.Write of value by writer who on a descriptor
\* of filePath that is not of the file directory f has under the name:
\* the bytes go to offset 0 of the file the descriptor is of, which the
\* requests that read on a descriptor of it see
WriteUnlinked(rq, f, filePath, value, who) ==
    [q \in DOMAIN rq |->
        IF /\ ~(Exists(f, filePath) /\ who \in f[filePath].open)
           /\ rq[q].io.at = "read" /\ rq[q].io.lost.held
           /\ getFilePath(CallKey(rq[q])) = filePath
           /\ who \in rq[q].io.lost.open
        THEN [rq[q] EXCEPT !.io.lost.data =
                              value \o SubSeq(@, Len(value) + 1, Len(@)),
                           !.io.lost.open = @ \ {who}]
        ELSE rq[q]]

\* one step of the call of Has request q is in, on directory f at clock
\* t: [f, q]
hasStep(f, q, t) ==
    LET s == ReadStep(f, CallKey(q), q.io, t, FALSE)
    IN  [f |-> s.f,
         q |-> IF s.done THEN Looked(q, s.ok, q.pc = "has-headers")
               ELSE [q EXCEPT !.io = s.io]]

\* the files of the entry of key, by their place in the loop of
\* deleteCacheByExpiration, that are on disk and older than the timeout
Stale(f, key, t) ==
    {i \in DOMAIN ExpirationKeys(key) :
        LET filePath == getFilePath(ExpirationKeys(key)[i])
        IN  /\ timeout > 0
            /\ Exists(f, filePath)
            /\ t - f[filePath].mtime > timeout}

\* handleRequest with the method made a part of the key
handleKeyedByMethod(r, methods) ==
    /\ req[r].pc = "idle"
    /\ \A q \in Requests : q < r => req[q].pc # "idle"
    /\ \E method \in methods :
        LET cacheKey == getRequestCacheKey(uniqueByUser, ProxiedURL, ProxiedHeader)
                            \o method
            base == [IdleRequest EXCEPT !.pc = "has",
                                        !.method = method, !.url = ProxiedURL,
                                        !.header = ProxiedHeader,
                                        !.key = cacheKey, !.ops = {"Has"},
                                        !.after = {q \in Requests : Populated(q)},
                                        !.stale = Stale(files, cacheKey, now)]
            has == hasStep(files, base, now)
        IN  /\ ~isNotSafeMethod(method)
            /\ req' = [Unlinked(req, files, has.f) EXCEPT ![r] = has.q]
            /\ files' = has.f
    /\ UNCHANGED <<proc, call, timeout, uniqueByUser, now, wr, sweeper>>

\* handleRequest, for a request with one of these methods, up to the call
\* of proxyRequest for a method that is not safe, and else into the first
\* call of hasRequestInCache, Has(key), up to its first call of the system:
\* with no timeout the os.Stat that ends Has, with a timeout the os.Stat of
\* the first file in deleteCacheByExpiration
handle(r, methods) ==
    /\ req[r].pc = "idle"
    /\ \A q \in Requests : q < r => req[q].pc # "idle"
    /\ \E method \in methods :
        LET base == [IdleRequest EXCEPT !.method = method, !.url = ProxiedURL,
                                        !.header = ProxiedHeader]
        IN  IF isNotSafeMethod(method)
            THEN /\ req' = [req EXCEPT ![r] =
                        [base EXCEPT !.pc = "proxy",
                                     !.w.header = HeaderSet(EmptyHeader, XCacheName, Str("MISS"))]]
                 /\ files' = files
            ELSE LET cacheKey == getRequestCacheKey(uniqueByUser, ProxiedURL, ProxiedHeader)
                     has == hasStep(files,
                                    [base EXCEPT !.pc = "has",
                                                 !.key = cacheKey, !.ops = {"Has"},
                                                 !.after = {q \in Requests : Populated(q)},
                                                 !.stale = Stale(files, cacheKey, now)],
                                    now)
                 IN  /\ req' = [Unlinked(req, files, has.f) EXCEPT ![r] = has.q]
                     /\ files' = has.f
    /\ UNCHANGED <<proc, call, timeout, uniqueByUser, now, wr, sweeper>>

handleRequest(r) == handle(r, Methods)

handleGet(r) == handle(r, {MethodGet})

\* the methods the dispatcher takes through the cache
SafeMethods == {MethodGet, MethodHead, MethodOptions}

handleSafe(r) == handle(r, SafeMethods)

\* hasRequestInCache after its first call of the system: the next os.Stat,
\* reading of the clock or os.Remove of the call of Has that is under way,
\* or the first of the next call, Has(key-status) and then
\* Has(key-headers), each made when the calls before it returned true
hasRequestInCacheNext(r) ==
    /\ req[r].pc \in {"has", "has-status", "has-headers"}
    /\ LET has == hasStep(files, req[r], now)
       IN  /\ req' = [Unlinked(req, files, has.f) EXCEPT ![r] = has.q]
           /\ files' = has.f
    /\ UNCHANGED <<proc, call, timeout, uniqueByUser, now, wr, sweeper>>

\* proxyRequest when the fetch fails
proxyRequestError(r) ==
    /\ req[r].pc = "proxy"
    /\ \E failure \in FetchFailures :
        req' = [req EXCEPT ![r].pc = "done", ![r].src = "error",
                           ![r].w = HttpError(req[r].w,
                               IF failure = "ReadAll"
                               THEN "Failed to read response body"
                               ELSE "Failed to fetch data from origin")]
    /\ UNCHANGED <<proc, call, timeout, uniqueByUser, now, files, wr, sweeper>>

\* what http.Client.Do and io.ReadAll give getResponseFromOrigin and
\* proxyRequest for the response resp of the origin: a response to the
\* method HEAD has no body
ClientResponse(method, resp) ==
    IF method = MethodHead THEN [resp EXCEPT !.body = <<>>] ELSE resp

\* proxyRequest storing the responses below status 400 only
proxyStoresSuccessOnly(r, responses) ==
    /\ req[r].pc = "proxy"
    /\ \E resp \in responses :
        /\ req' = [req EXCEPT ![r].pc = "respond", ![r].src = "origin",
                              ![r].resp = ClientResponse(req[r].method, resp),
                              ![r].ops = IF req[r].caching /\ resp.status < 400
                                         THEN @ \cup {"Set", "SetInt", "SetHeaders"}
                                         ELSE @]
        /\ wr' = [wr EXCEPT ![r] = dispatch(req[r].caching /\ resp.status < 400)]
    /\ UNCHANGED <<proc, call, timeout, uniqueByUser, now, files, sweeper>>

\* proxyRequest when the origin answers with one of these responses, up to
\* the three go statements: the goroutines run from here on, the response
\* is not written yet
proxy(r, responses) ==
    /\ req[r].pc = "proxy"
    /\ \E resp \in responses :
        /\ req' = [req EXCEPT ![r].pc = "respond", ![r].src = "origin",
                              ![r].resp = ClientResponse(req[r].method, resp),
                              ![r].ops = IF req[r].caching
                                         THEN @ \cup {"Set", "SetInt", "SetHeaders"}
                                         ELSE @]
        /\ wr' = [wr EXCEPT ![r] = dispatch(req[r].caching)]
    /\ UNCHANGED <<proc, call, timeout, uniqueByUser, now, files, sweeper>>

proxyRequest(r) == proxy(r, OriginResponses)

proxyBytes(r) == proxy(r, ByteResponses)

proxyStatus(r) == proxy(r, StatusResponses)

proxyPlain(r) == proxy(r, {PlainResponse})

\* proxyRequest after the go statements: the headers, the status and the
\* body are written to the client
proxyRespond(r) ==
    /\ req[r].pc = "respond"
    /\ req' = [req EXCEPT ![r].pc = "done",
                          ![r].w = responseFromOrigin(req[r].w, req[r].resp)]
    /\ UNCHANGED <<proc, call, timeout, uniqueByUser, now, files, wr, sweeper>>

\* responseFromCache: one call of the system inside its call of Get; the
\* return of Get gives the body of the response
serveGet(r) ==
    /\ req[r].pc = "hit"
    /\ LET data == ReadStep(files, CallKey(req[r]), req[r].io, now, TRUE)
       IN  /\ req' = [Unlinked(req, files, data.f) EXCEPT ![r] =
                        IF data.done
                        THEN [@ EXCEPT !.pc = "hit-headers", !.io = NoIO,
                                       !.ops = @ \cup {"Get"},
                                       !.w.body = data.data]
                        ELSE [@ EXCEPT !.io = data.io, !.ops = @ \cup {"Get"}]]
           /\ files' = data.f
    /\ UNCHANGED <<proc, call, timeout, uniqueByUser, now, wr, sweeper>>

\* responseFromCache: one call of the system inside its call of
\* GetHeaders; the return is followed by the copy of the headers
serveGetHeaders(r) ==
    /\ req[r].pc = "hit-headers"
    /\ LET data == ReadStep(files, CallKey(req[r]), req[r].io, now, TRUE)
           headers == HeadersOf(data)
       IN  /\ req' = [Unlinked(req, files, data.f) EXCEPT ![r] =
                        IF data.done
                        THEN [@ EXCEPT !.pc = "hit-status", !.io = NoIO,
                                       !.ops = @ \cup {"GetHeaders"},
                                       !.w.header = IF headers.ok
                                                    THEN CopyHeaders(@, headers.h)
                                                    ELSE @]
                        ELSE [@ EXCEPT !.io = data.io, !.ops = @ \cup {"GetHeaders"}]]
           /\ files' = data.f
    /\ UNCHANGED <<proc, call, timeout, uniqueByUser, now, wr, sweeper>>

\* responseFromCache: one call of the system inside its call of GetInt;
\* the return is followed by WriteHeader and Write; with no WriteHeader
\* call the first Write sends 200
serveGetInt(r) ==
    /\ req[r].pc = "hit-status"
    /\ LET data == ReadStep(files, CallKey(req[r]), req[r].io, now, TRUE)
           status == IntOf(data)
       IN  /\ req' = [Unlinked(req, files, data.f) EXCEPT ![r] =
                        IF data.done
                        THEN [@ EXCEPT !.pc = "done", !.io = NoIO, !.src = "cache",
                                       !.ops = @ \cup {"GetInt"},
                                       !.w.status = IF status.ok THEN status.val ELSE 200]
                        ELSE [@ EXCEPT !.io = data.io, !.ops = @ \cup {"GetInt"}]]
           /\ files' = data.f
    /\ UNCHANGED <<proc, call, timeout, uniqueByUser, now, wr, sweeper>>

\* one call of the system inside responseFromCache
serveFromCache(r) == serveGet(r) \/ serveGetHeaders(r) \/ serveGetInt(r)

\* one step of the handler of request r after its dispatch
handlerStep(r) ==
    hasRequestInCacheNext(r) \/ proxyRespond(r) \/ serveFromCache(r)

\* the key a population goroutine of request r writes
TaskKey(r, part) ==
    IF part = "body" THEN req[r].key
    ELSE IF part = "status" THEN req[r].key \o StatusSuffix
    ELSE req[r].key \o HeadersSuffix

\* the values a population goroutine of request r may hand to Set
TaskValues(r, part) ==
    IF part = "body" THEN {req[r].resp.body}
    ELSE IF part = "status" THEN {IntBytes(req[r].resp.status)}
    ELSE {HeaderBytes(req[r].resp.header, o) : o \in Orders(DOMAIN req[r].resp.header)}

\* one population goroutine, in Cache.Set: os.Create has returned
populateCreate(r, part) ==
    /\ wr[r][part] = "go"
    /\ files' = Create(files, getFilePath(TaskKey(r, part)), now, r)
    /\ wr' = [wr EXCEPT ![r][part] = "open"]
    /\ UNCHANGED <<proc, call, timeout, uniqueByUser, now, req, sweeper>>

\* one population goroutine, in Cache.Set: file.Write and the return
populateWrite(r, part) ==
    /\ wr[r][part] = "open"
    /\ \E value \in TaskValues(r, part) :
        /\ files' = Write(files, getFilePath(TaskKey(r, part)), now, value, r)
        /\ req' = WriteUnlinked(req, files, getFilePath(TaskKey(r, part)), value, r)
    /\ wr' = [wr EXCEPT ![r][part] = "done"]
    /\ UNCHANGED <<proc, call, timeout, uniqueByUser, now, sweeper>>

\* one step of one population goroutine: p.cache.Set, SetInt or SetHeaders
populate(r, part) == populateCreate(r, part) \/ populateWrite(r, part)

\* a population goroutine whose failure reaches the response
populateCreateFailsReported(r, part) ==
    /\ wr[r][part] = "go"
    /\ wr' = [wr EXCEPT ![r][part] = "failed"]
    /\ req' = [req EXCEPT ![r].w = HttpError(@, "error adding to cache")]
    /\ UNCHANGED <<proc, call, timeout, uniqueByUser, now, files, sweeper>>

\* one population goroutine, in Cache.Set: os.Create fails and Set returns
\* the error, which the go statement drops
populateCreateFails(r, part) ==
    /\ wr[r][part] = "go"
    /\ wr' = [wr EXCEPT ![r][part] = "failed"]
    /\ UNCHANGED <<proc, call, timeout, uniqueByUser, now, files, req, sweeper>>

\* one population goroutine, in Cache.Set: file.Write fails, the created
\* file stays as it is
populateWriteFails(r, part) ==
    /\ wr[r][part] = "open"
    /\ files' = Close(files, getFilePath(TaskKey(r, part)), r)
    /\ wr' = [wr EXCEPT ![r][part] = "failed"]
    /\ UNCHANGED <<proc, call, timeout, uniqueByUser, now, req, sweeper>>

\* the process ends: os.Exit, or log.Fatalf
Exit(code) == [proc EXCEPT !.pc = "exited", !.exit = code]

\* Parse from the check of help on: the process after the validation of
\* the arguments
Validated ==
    IF proc.help THEN Exit(0)
    ELSE IF proc.port = 0 \/ proc.origin = <<>> THEN Exit(1)
    ELSE IF ~isValidPort(proc.port) THEN Exit(1)
    ELSE IF ~getValidOriginURL(proc.origin).ok THEN Exit(1)
    ELSE [proc EXCEPT !.pc = "parsed"]

\* Parse validating the arguments before it looks at --clear-cache
ParseValidatesFirst ==
    /\ proc.pc = "Parse"
    /\ proc' = IF ~proc.parses THEN Exit(2) ELSE Validated
    /\ UNCHANGED <<call, timeout, uniqueByUser, now, files, req, wr, sweeper>>

\* ArgParser.Parse: flag.Parse ends the process with status 2 on a command
\* line that does not parse (a flag that is not defined, a value that is
\* not of the type of its flag), whatever flags it has set before; with
\* --clear-cache nothing is validated
Parse ==
    /\ proc.pc = "Parse"
    /\ proc' = IF ~proc.parses THEN Exit(2)
               ELSE IF proc.clearCache THEN [proc EXCEPT !.pc = "parsed"]
               ELSE Validated
    /\ UNCHANGED <<call, timeout, uniqueByUser, now, files, req, wr, sweeper>>

\* main with --clear-cache: filecache.New, ClearAll, os.Exit(0).  When
\* os.MkdirAll fails filecache.New ends the process with log.Fatalf, when
\* the directory cannot be listed ClearAll does; a name os.RemoveAll fails
\* on is logged and stays, and the process exits with status 0 all the
\* same.
mainClearAll ==
    /\ proc.pc = "parsed" /\ proc.clearCache
    /\ IF ~proc.creatable \/ ~proc.listable
       THEN files' = files /\ proc' = Exit(1)
       ELSE \E stuck \in SUBSET DOMAIN files :
               /\ files' = ClearAll(files, stuck)
               /\ proc' = [Exit(0) EXCEPT !.failed = stuck]
    /\ UNCHANGED <<call, timeout, uniqueByUser, now, req, wr, sweeper>>

\* main without --clear-cache: filecache.New, which ends the process with
\* log.Fatalf when os.MkdirAll fails, then RunCleanUp
mainRunCleanUp ==
    /\ proc.pc = "parsed" /\ ~proc.clearCache
    /\ IF proc.creatable
       THEN proc' = [proc EXCEPT !.pc = "sweeping"] /\ sweeper' = SweeperAt("start")
       ELSE proc' = Exit(1) /\ sweeper' = sweeper
    /\ UNCHANGED <<call, timeout, uniqueByUser, now, files, req, wr>>

\* main: proxy.New, SetUniqueByUser, Start
mainStart ==
    /\ proc.pc = "sweeping"
    /\ proc' = [proc EXCEPT !.pc = "listening"]
    /\ UNCHANGED <<call, timeout, uniqueByUser, now, files, req, wr, sweeper>>

\* cleanUpOldFiles: the check of the timeout on entry
cleanUpStart ==
    /\ sweeper.pc = "start"
    /\ sweeper' = [sweeper EXCEPT !.pc = IF timeout <= 0 THEN "exited" ELSE "walk"]
    /\ UNCHANGED <<proc, call, timeout, uniqueByUser, now, files, req, wr>>

\* cleanUpOldFiles: time.Sleep returns
cleanUpWake ==
    /\ sweeper.pc = "sleep"
    /\ now >= sweeper.wake
    /\ sweeper' = [sweeper EXCEPT !.pc = "walk", !.wake = 0, !.err = FALSE,
                                  !.refused = FALSE]
    /\ UNCHANGED <<proc, call, timeout, uniqueByUser, now, files, req, wr>>

\* the place of a file in the lexical order of the names: the digest of
\* "/a" (0639...) comes before the digest of "/b" (97aa...), and the files
\* of one entry come as K, K-headers, K-status
WalkRank(path) ==
    (IF \E i \in DOMAIN path : path[i] = "/b" THEN 3 ELSE 0)
    + (IF path[Len(path)] = "-headers" THEN 1
       ELSE IF path[Len(path)] = "-status" THEN 2
       ELSE 0)

\* readDirNames: the names of the directory, sorted
readDirNames(f) ==
    CHOOSE names \in Orders(DOMAIN f) :
        \A i, j \in 1..Len(names) : i < j => WalkRank(names[i]) <= WalkRank(names[j])

\* the last walk returned an error, which the loop logged before the sleep
\* that is under way
LoggedWalkError == sweeper.err

\* the removals that failed in the last walk, which the callback logged
LoggedRemoveErrors == sweeper.failed

\* cleanUpOldFiles: the call of time.Sleep after a walk that returned err
Sleeping(err) ==
    [sweeper EXCEPT !.pc = "sleep", !.wake = now + timeout, !.err = err,
                    !.names = <<>>, !.mtime = 0]

\* the callback visits the names that are left
Visiting(names, failed) ==
    [sweeper EXCEPT !.pc = "visit", !.names = names, !.failed = failed,
                    !.mtime = 0]

\* filepath.Walk: the names of the directory are read
walkReadDir ==
    /\ sweeper.pc = "walk"
    /\ sweeper' = Visiting(readDirNames(files), {})
    /\ UNCHANGED <<proc, call, timeout, uniqueByUser, now, files, req, wr>>

\* filepath.Walk: the directory cannot be read, the callback returns the
\* error and the loop ends in the function
walkReadDirFailsStops ==
    /\ sweeper.pc = "walk"
    /\ sweeper' = [sweeper EXCEPT !.pc = "exited", !.err = TRUE, !.failed = {}]
    /\ UNCHANGED <<proc, call, timeout, uniqueByUser, now, files, req, wr>>

\* filepath.Walk: the directory cannot be read, the callback returns the
\* error and Walk returns it to the loop; no removal was tried in this
\* walk
walkReadDirFails ==
    /\ sweeper.pc = "walk"
    /\ sweeper' = [sweeper EXCEPT !.pc = "walked", !.err = TRUE, !.names = <<>>,
                                  !.failed = {}, !.refused = TRUE]
    /\ UNCHANGED <<proc, call, timeout, uniqueByUser, now, files, req, wr>>

\* filepath.Walk: Lstat of the next name, with whose result the callback
\* is called.  A name that is gone makes the callback return the error,
\* which ends the walk.
walkLstat ==
    /\ sweeper.pc = "visit"
    /\ Len(sweeper.names) > 0
    /\ LET path == Head(sweeper.names) IN
        sweeper' = IF ~Exists(files, path)
                   THEN [sweeper EXCEPT !.pc = "walked", !.err = TRUE, !.names = <<>>]
                   ELSE [sweeper EXCEPT !.pc = "since", !.mtime = files[path].mtime]
    /\ UNCHANGED <<proc, call, timeout, uniqueByUser, now, files, req, wr>>

\* the callback: time.Since of the modification time Lstat returned,
\* compared with the timeout
walkSince ==
    /\ sweeper.pc = "since"
    /\ sweeper' = IF TooOld(sweeper.mtime, now)
                  THEN [sweeper EXCEPT !.pc = "remove", !.mtime = 0]
                  ELSE Visiting(Tail(sweeper.names), LoggedRemoveErrors)
    /\ UNCHANGED <<proc, call, timeout, uniqueByUser, now, files, req, wr>>

\* the callback: os.Remove of the file found too old
walkRemove ==
    /\ sweeper.pc = "remove"
    /\ LET path == Head(sweeper.names) IN
        /\ files' = Remove(files, path)
        /\ req' = Unlinked(req, files, Remove(files, path))
        /\ sweeper' = Visiting(Tail(sweeper.names),
                                IF Exists(files, path) THEN LoggedRemoveErrors
                                ELSE LoggedRemoveErrors \cup {path})
    /\ UNCHANGED <<proc, call, timeout, uniqueByUser, now, wr>>

\* the callback: os.Remove fails, the error is logged and the walk goes on
walkRemoveFails ==
    /\ sweeper.pc = "remove"
    /\ sweeper' = [Visiting(Tail(sweeper.names),
                             LoggedRemoveErrors \cup {Head(sweeper.names)})
                        EXCEPT !.refused = TRUE]
    /\ UNCHANGED <<proc, call, timeout, uniqueByUser, now, files, req, wr>>

\* filepath.Walk returns nil after the last name, and the loop calls
\* time.Sleep
walkReturn ==
    /\ sweeper.pc = "visit"
    /\ Len(sweeper.names) = 0
    /\ sweeper' = Sleeping(FALSE)
    /\ UNCHANGED <<proc, call, timeout, uniqueByUser, now, files, req, wr>>

\* the loop after a walk that returned an error: the error is logged and
\* time.Sleep called
walkReturnError ==
    /\ sweeper.pc = "walked"
    /\ sweeper' = Sleeping(TRUE)
    /\ UNCHANGED <<proc, call, timeout, uniqueByUser, now, files, req, wr>>

\* cleanUpOldFiles: one step of one filepath.Walk, in which the listing
\* of the directory, the Lstat of a name and the removal of a file may
\* fail, then the call of time.Sleep
cleanUpOldFiles ==
    \/ walkReadDir
    \/ walkReadDirFails
    \/ walkLstat
    \/ walkSince
    \/ walkRemove
    \/ walkRemoveFails
    \/ walkReturn
    \/ walkReturnError

\* one step of the goroutine of cleanUpOldFiles
sweeperStep ==
    \/ cleanUpStart
    \/ cleanUpOldFiles
    \/ cleanUpWake

Max(a, b) == IF a >= b THEN a ELSE b

\* a modification time one tick further in the past; ages beyond MaxAge
\* are kept at MaxAge
Earlier(mtime) == Max(mtime - 1, now - MaxAge)

\* one tick passes, time being counted from the present: every
\* modification time, on disk or returned by a Stat and not yet compared,
\* and the end of the sleep move one tick into the past
Elapse ==
    /\ files' = [p \in DOMAIN files |-> [files[p] EXCEPT !.mtime = Earlier(@)]]
    /\ sweeper' = [sweeper EXCEPT !.wake = Max(@ - 1, now),
                                  !.mtime = IF sweeper.pc = "since" THEN Earlier(@)
                                            ELSE @]
    /\ req' = [r \in Requests |->
                 [req[r] EXCEPT !.io.mtime = IF req[r].io.at = "since"
                                             THEN Earlier(@) ELSE @]]
    /\ UNCHANGED <<proc, call, timeout, uniqueByUser, now, wr>>

\* the clock advances
Tick ==
    /\ now < MaxTime
    /\ now' = now + 1
    /\ UNCHANGED <<proc, call, timeout, uniqueByUser, files, req, wr, sweeper>>

\* the sweeper has ended, or sleeps and is not due
SweeperOnTime == sweeper.pc = "exited" \/ (sweeper.pc = "sleep" /\ now < sweeper.wake)

\* the clock advances while the sweeper sleeps before the end of its sleep
TickDuringSleep ==
    /\ now < MaxSweepTime
    /\ SweeperOnTime
    /\ now' = now + 1
    /\ sweeper' = [sweeper EXCEPT !.denied = @ \/ sweeper.refused]
    /\ UNCHANGED <<proc, call, timeout, uniqueByUser, files, req, wr>>

\* the clock advances while a walk is due or under way: the sweeper is
\* scheduled late, or its walk takes time
TickWhileDue ==
    /\ now < MaxSweepTime
    /\ ~SweeperOnTime
    /\ now' = now + 1
    /\ sweeper' = [sweeper EXCEPT !.late = TRUE, !.denied = @ \/ sweeper.refused]
    /\ UNCHANGED <<proc, call, timeout, uniqueByUser, files, req, wr>>

\* the directory after a request for url was answered with resp and its
\* three writes completed
Populate(f, url, resp) ==
    LET key == getRequestCacheKey(FALSE, url, EmptyHeader)
        order == CHOOSE o \in Orders(DOMAIN resp.header) : TRUE
        f1 == Set(f, key, 0, resp.body)
        f2 == Set(f1, key \o StatusSuffix, 0, IntBytes(resp.status))
    IN  Set(f2, key \o HeadersSuffix, 0, HeaderBytes(resp.header, order))

EmptyDir == [p \in {} |-> 0]

\* the directory earlier runs left, by the number of entries they populated
LeftoverDir(n) ==
    IF n = 0 THEN EmptyDir
    ELSE IF n = 1 THEN Populate(EmptyDir, Str("/a"), PlainResponse)
    ELSE Populate(Populate(EmptyDir, Str("/a"), PlainResponse), Str("/b"), TaggedResponse)

----------------------------------------------------------------------------
(* Spec: the proxy started with no --cache-timeout (the default, 0).       *)
(* Nothing reads the clock, so it stands still.                            *)

Init ==
    /\ timeout = 0
    /\ uniqueByUser \in BOOLEAN
    /\ Boot

Next ==
    \/ \E r \in Requests : handleRequest(r)
    \/ \E r \in Requests : proxyRequestError(r)
    \/ \E r \in Requests : proxyRequest(r)
    \/ \E r \in Requests : handlerStep(r)
    \/ \E r \in Requests, part \in Parts : populate(r, part)
    \/ cleanUpStart

Spec == Init /\ [][Next]_vars

----------------------------------------------------------------------------
(* SpecTTL: the proxy started with a --cache-timeout on the directory an   *)
(* earlier run left, serving the GET requests of one client from an origin *)
(* that answers, with the clock and the sweeper running.                   *)

\* the requests of the runs in which entries expire
TTLRequests == {1}

\* the directory of a run with a --cache-timeout: empty, or holding the
\* entry of the proxied URL, written when the process starts
InitLeftover ==
    /\ timeout \in ExpiringTimeouts
    /\ uniqueByUser = FALSE
    /\ now = 0
    /\ \E n \in 0..1 : files = LeftoverDir(n)
    /\ req = [r \in Requests |-> IdleRequest]
    /\ wr = [r \in Requests |-> [p \in Parts |-> "none"]]
    /\ sweeper = SweeperAt("start")
    /\ proc = Serving
    /\ call = NoCall

NextTTL ==
    \/ \E r \in TTLRequests : handleGet(r)
    \/ \E r \in Requests : proxyPlain(r)
    \/ \E r \in Requests : handlerStep(r)
    \/ \E r \in Requests, part \in Parts : populate(r, part)
    \/ cleanUpStart
    \/ cleanUpOldFiles
    \/ cleanUpWake
    \/ Tick

SpecTTL == InitLeftover /\ [][NextTTL]_vars

----------------------------------------------------------------------------
(* SpecSweep: the proxy started with a --cache-timeout on the directory an  *)
(* earlier run left, which may hold the entry of a second URL that no      *)
(* client requests, before an origin that is down: every request that     *)
(* misses ends in proxyRequest's http.Error, so that of the steps of a     *)
(* handler only those of the hit check and of the reads of a hit remain.   *)
(* The clock is longer than that of SpecTTL, and records whether it ever   *)
(* advanced while a walk was due or under way.                             *)

InitSweep ==
    /\ timeout \in ExpiringTimeouts
    /\ uniqueByUser = FALSE
    /\ now = 0
    /\ \E n \in 0..2 : files = LeftoverDir(n)
    /\ req = [r \in Requests |-> IdleRequest]
    /\ wr = [r \in Requests |-> [p \in Parts |-> "none"]]
    /\ sweeper = SweeperAt("start")
    /\ proc = Serving
    /\ call = NoCall

NextSweep ==
    \/ \E r \in TTLRequests : handleGet(r)
    \/ \E r \in Requests : proxyRequestError(r)
    \/ \E r \in Requests : hasRequestInCacheNext(r)
    \/ \E r \in Requests : serveFromCache(r)
    \/ cleanUpStart
    \/ cleanUpOldFiles
    \/ cleanUpWake
    \/ TickDuringSleep
    \/ TickWhileDue

SpecSweep == InitSweep /\ [][NextSweep]_vars

----------------------------------------------------------------------------
(* SpecForever: the proxy started with no --cache-timeout, serving GET     *)
(* requests while the clock runs.                                          *)

InitForever ==
    /\ timeout = 0
    /\ uniqueByUser = FALSE
    /\ Boot

NextForever ==
    \/ \E r \in Requests : handleGet(r)
    \/ \E r \in Requests : proxyPlain(r)
    \/ \E r \in Requests : handlerStep(r)
    \/ \E r \in Requests, part \in Parts : populate(r, part)
    \/ cleanUpStart
    \/ Tick

SpecForever == InitForever /\ [][NextForever]_vars

----------------------------------------------------------------------------
(* SpecMain: the process from its command line to its exit or to the       *)
(* listening server, on a cache directory that earlier runs populated.     *)

\* the values of --port
Ports == {0, 3000, 65536}

ReadmeOrigin == <<"https", ":", "/", "/", "github.com", "/">>

\* the values of --origin
Origins ==
    { <<>>,
      <<"https", ":", "/", "/", "github.com">>,
      <<"HTTP", ":", "/", "/", "github.com">>,
      <<"http", ":", "/", "/", "localhost", ":", "8", "0">>,
      ReadmeOrigin,
      <<"http", ":", "/", "/", "github.com", "/", "api">>,
      <<"http", ":", "/", "/", "github.com", "?", "q">>,
      <<"http", ":", "/", "/", "github.com", "?">>,
      <<"http", ":", "/", "/", "github.com", "#", "top">>,
      <<"http", ":", "/", "/", "user", ":", "pw", "@", "github.com">>,
      <<"http", ":", "/", "/">>,
      <<"http", ":", "github.com">>,
      <<"ftp", ":", "/", "/", "github.com">>,
      <<"github.com">>,
      <<"/", "api">> }

InitMain ==
    /\ timeout \in {0} \cup ExpiringTimeouts
    /\ uniqueByUser \in BOOLEAN
    /\ now = 0
    /\ \E n \in 0..2, parses \in BOOLEAN, clearCache \in BOOLEAN,
          help \in BOOLEAN, port \in Ports, origin \in Origins,
          creatable \in BOOLEAN, listable \in BOOLEAN :
          /\ files = LeftoverDir(n)
          /\ proc = [pc |-> "Parse", parses |-> parses, clearCache |-> clearCache,
                     help |-> help, port |-> port, origin |-> origin,
                     creatable |-> creatable, listable |-> listable,
                     failed |-> {}, populated |-> n, exit |-> -1]
    /\ req = [r \in Requests |-> IdleRequest]
    /\ wr = [r \in Requests |-> [p \in Parts |-> "none"]]
    /\ sweeper = SweeperAt("off")
    /\ call = NoCall

NextMain ==
    \/ Parse
    \/ mainClearAll
    \/ mainRunCleanUp
    \/ mainStart

SpecMain == InitMain /\ [][NextMain]_vars

----------------------------------------------------------------------------
(* SpecStore: the operations of the cache store called one after another   *)
(* on the keys of one entry, with no timeout.                              *)

StoreKey == getRequestCacheKey(FALSE, ProxiedURL, EmptyHeader)

StoreKeys == {StoreKey, StoreKey \o StatusSuffix, StoreKey \o HeadersSuffix}

\* the payloads of Set
StoreBytes == {<<>>, <<"p", "q">>}

\* the values of SetInt
StoreInts == {0, 200, -1}

\* the header sets of SetHeaders: none, one name with two values, two
\* names, and one value of the size of the Scanner's buffer
StoreHeaders ==
    { EmptyHeader,
      PlainResponse.header,
      [n \in {XCacheName, Str("Set-Cookie")} |->
          IF n = XCacheName THEN <<Str("MISS")>> ELSE <<Str("a=1"), <<>>>>],
      Header1(Str("Set-Cookie"), Str(LongValue)) }

\* of the three files of key k the body alone is there
OnlyBody(k) ==
    /\ getFilePath(k) \in DOMAIN files
    /\ getFilePath(k \o StatusSuffix) \notin DOMAIN files
    /\ getFilePath(k \o HeadersSuffix) \notin DOMAIN files

InitStore ==
    /\ timeout = 0
    /\ uniqueByUser = FALSE
    /\ Boot

\* a call begins when the call before it has returned
callSet(key, value) ==
    /\ call.pc = "returned"
    /\ files' = Set(files, key, now, value)
    /\ call' = Called("Set", key, value, <<>>, OnlyBody(key))
    /\ UNCHANGED <<proc, timeout, uniqueByUser, now, req, wr, sweeper>>

callSetInt(key, value) ==
    /\ call.pc = "returned"
    /\ files' = Set(files, key, now, IntBytes(value))
    /\ call' = Called("SetInt", key, value, <<>>, OnlyBody(key))
    /\ UNCHANGED <<proc, timeout, uniqueByUser, now, req, wr, sweeper>>

callSetHeaders(key, headers) ==
    /\ call.pc = "returned"
    /\ \E order \in Orders(DOMAIN headers) :
          files' = Set(files, key, now, HeaderBytes(headers, order))
    /\ call' = Called("SetHeaders", key, headers, <<>>, OnlyBody(key))
    /\ UNCHANGED <<proc, timeout, uniqueByUser, now, req, wr, sweeper>>

\* a call of a reading operation with no timeout, when nothing runs
\* between its steps: what it returns and the directory it leaves
reading(op, key, out, ret) ==
    /\ call.pc = "returned"
    /\ files' = out.f
    /\ call' = Called(op, key, <<>>, ret, OnlyBody(key))
    /\ UNCHANGED <<proc, timeout, uniqueByUser, now, req, wr, sweeper>>

callHas(key) ==
    LET out == Has(files, key, now)
    IN  reading("Has", key, out, [ok |-> out.ok])

callGet(key) ==
    LET out == Get(files, key, now)
    IN  reading("Get", key, out, [data |-> out.data, ok |-> out.ok])

callGetInt(key) ==
    LET out == GetInt(files, key, now)
    IN  reading("GetInt", key, out, [val |-> out.val, ok |-> out.ok])

callGetHeaders(key) ==
    LET out == GetHeaders(files, key, now)
    IN  reading("GetHeaders", key, out, [h |-> out.h, ok |-> out.ok])

callHasRequestInCache(key) ==
    LET out == hasRequestInCache(files, key, now)
    IN  reading("hasRequestInCache", key, out, [ok |-> out.ok])

NextStore ==
    \/ \E key \in StoreKeys, value \in StoreBytes : callSet(key, value)
    \/ \E key \in StoreKeys, value \in StoreInts : callSetInt(key, value)
    \/ \E key \in StoreKeys, headers \in StoreHeaders : callSetHeaders(key, headers)
    \/ \E key \in StoreKeys : callHas(key)
    \/ \E key \in StoreKeys : callGet(key)
    \/ \E key \in StoreKeys : callGetInt(key)
    \/ \E key \in StoreKeys : callGetHeaders(key)
    \/ \E key \in StoreKeys : callHasRequestInCache(key)

SpecStore == InitStore /\ [][NextStore]_vars

----------------------------------------------------------------------------
(* SpecExpire: Set, Has, Get and the hit check of the dispatcher called    *)
(* one after another by one caller on the keys of one entry, with and      *)
(* without a timeout.  The clock runs between the calls and inside them:   *)
(* every os.Stat, every reading of the clock, every os.Remove, the os.Open *)
(* and every read of a reading call is a step of its own.                  *)

InitExpire ==
    /\ timeout \in {0} \cup ExpiringTimeouts
    /\ uniqueByUser = FALSE
    /\ Boot

\* hasRequestInCache returning what its first call of Has returned
hasRequestInCacheFirstOnly(pc, ok) == "returned"

\* hasRequestInCache after its call of Has at pc returned ok: the && makes
\* the next call, Has(key-status) and then Has(key-headers), only when the
\* calls before it returned true, and the function returns with the last
\* answer
hasRequestInCacheAfter(pc, ok) ==
    IF ~ok THEN "returned"
    ELSE IF pc = "has" THEN "has-status"
    ELSE IF pc = "has-status" THEN "has-headers"
    ELSE "returned"

\* one call of the system, or one reading of the clock, of the direct
\* call c on directory f at clock t: a step of Has(key) or Get(key), or of
\* the call of Has that hasRequestInCache(key) is in; [f, c]
callStep(f, c, t) ==
    LET key == IF c.pc = "has-status" THEN c.key \o StatusSuffix
               ELSE IF c.pc = "has-headers" THEN c.key \o HeadersSuffix
               ELSE c.key
        s == ReadStep(f, key, c.io, t, c.pc = "Get")
        after == IF c.pc \in {"Has", "Get"} THEN "returned"
                 ELSE hasRequestInCacheAfter(c.pc, s.ok)
    IN  [f |-> s.f,
         c |-> IF ~s.done THEN [c EXCEPT !.io = s.io]
               ELSE IF after = "returned"
               THEN [c EXCEPT !.pc = "returned", !.io = NoIO,
                              !.ret = IF c.pc = "Get"
                                      THEN [data |-> s.data, ok |-> s.ok]
                                      ELSE [ok |-> s.ok]]
               ELSE [c EXCEPT !.pc = after, !.io = NoIO]]

\* the caller calls the reading operation op on key: the call up to its
\* first call of the system
callEnter(op, key) ==
    /\ call.pc = "returned"
    /\ LET entered == [Called(op, key, <<>>, <<>>, OnlyBody(key)) EXCEPT
                          !.pc = IF op = "hasRequestInCache" THEN "has" ELSE op]
           s == callStep(files, entered, now)
       IN  /\ files' = s.f
           /\ call' = s.c
    /\ UNCHANGED <<proc, timeout, uniqueByUser, now, req, wr, sweeper>>

\* the next call of the system, or reading of the clock, of the reading
\* call that is under way
callNext ==
    /\ call.pc # "returned"
    /\ LET s == callStep(files, call, now)
       IN  /\ files' = s.f
           /\ call' = s.c
    /\ UNCHANGED <<proc, timeout, uniqueByUser, now, req, wr, sweeper>>

NextExpire ==
    \/ \E key \in StoreKeys, value \in StoreBytes : callSet(key, value)
    \/ \E key \in StoreKeys : callEnter("Has", key)
    \/ \E key \in StoreKeys : callEnter("Get", key)
    \/ \E key \in StoreKeys : callEnter("hasRequestInCache", key)
    \/ callNext
    \/ Tick

SpecExpire == InitExpire /\ [][NextExpire]_vars

----------------------------------------------------------------------------
(* SpecTorn: the proxy with no timeout serving GET requests, with the two  *)
(* system calls of Cache.Set, os.Create and file.Write, as separate steps. *)

NextTorn ==
    \/ \E r \in Requests : handleGet(r)
    \/ \E r \in Requests : proxyBytes(r)
    \/ \E r \in Requests : handlerStep(r)
    \/ \E r \in Requests, part \in Parts : populateCreate(r, part)
    \/ \E r \in Requests, part \in Parts : populateWrite(r, part)

SpecTorn == InitForever /\ [][NextTorn]_vars

\* SpecPopulate: the writes taken in two steps, with an origin that answers
\* every fetch and a scheduler that runs every goroutine that is ready
NextPopulate ==
    \/ \E r \in Requests : handleGet(r)
    \/ \E r \in Requests : proxyPlain(r)
    \/ \E r \in Requests : handlerStep(r)
    \/ \E r \in Requests, part \in Parts : populateCreate(r, part)
    \/ \E r \in Requests, part \in Parts : populateWrite(r, part)

SpecPopulate ==
    /\ InitForever /\ [][NextPopulate]_vars
    /\ \A r \in Requests : WF_vars(proxyPlain(r))
    /\ \A r \in Requests, part \in Parts :
          WF_vars(populateCreate(r, part)) /\ WF_vars(populateWrite(r, part))

----------------------------------------------------------------------------
(* SpecKey: getRequestCacheKey applied to requests drawn from URLs and     *)
(* header values that hold the separator of the raw key.                   *)

\* r.URL.String(): a query string keeps a "|" unescaped
KeyURLs == {Str("/a?x"), <<"/a?x", "|", "u1">>}

KeyValues == {Str("u1"), Str("u2"), <<"u1", "|", "u2">>}

\* the headers of a request: User-Agent and Cookie, each absent or present
KeyHeaders ==
    {EmptyHeader}
    \cup {Header1(UserAgentName, v) : v \in KeyValues}
    \cup {Header1(CookieName, v) : v \in KeyValues}
    \cup {[n \in {UserAgentName, CookieName} |->
              IF n = UserAgentName THEN <<ua>> ELSE <<ck>>] :
          ua \in KeyValues, ck \in KeyValues}

\* SetUniqueByUser is called once, before the server starts
InitKey ==
    /\ timeout = 0
    /\ uniqueByUser \in BOOLEAN
    /\ Boot

\* the key of one request, as handleRequest derives it
deriveKey(r) ==
    /\ req[r].pc = "idle"
    /\ \E url \in KeyURLs, header \in KeyHeaders :
        req' = [req EXCEPT ![r] =
                  [IdleRequest EXCEPT !.pc = "keyed", !.method = MethodGet,
                                      !.url = url, !.header = header,
                                      !.key = getRequestCacheKey(uniqueByUser, url, header)]]
    /\ UNCHANGED <<proc, call, timeout, uniqueByUser, now, files, wr, sweeper>>

NextKey == \E r \in Requests : deriveKey(r)

SpecKey == InitKey /\ [][NextKey]_vars

----------------------------------------------------------------------------
(* SpecFail: population on a disk where os.Create and file.Write may fail. *)

NextFail ==
    \/ \E r \in Requests : handleGet(r)
    \/ \E r \in Requests : proxyPlain(r)
    \/ \E r \in Requests : handlerStep(r)
    \/ \E r \in Requests, part \in Parts : populateCreate(r, part)
    \/ \E r \in Requests, part \in Parts : populateWrite(r, part)
    \/ \E r \in Requests, part \in Parts : populateCreateFails(r, part)
    \/ \E r \in Requests, part \in Parts : populateWriteFails(r, part)

SpecFail == InitForever /\ [][NextFail]_vars

----------------------------------------------------------------------------
(* SpecWalk: the proxy started with a --cache-timeout, the sweep taken     *)
(* call by call: the names are read, each name is stat'ed, its age is      *)
(* tested, a file found too old is removed, the walk returns and the       *)
(* goroutine sleeps; the reading, the stat and the removal may fail.       *)

NextWalk ==
    \/ \E r \in TTLRequests : handleGet(r)
    \/ \E r \in Requests : proxyPlain(r)
    \/ \E r \in Requests : handlerStep(r)
    \/ \E r \in Requests, part \in Parts : populate(r, part)
    \/ cleanUpStart
    \/ cleanUpOldFiles
    \/ cleanUpWake
    \/ Elapse

SpecWalk == InitLeftover /\ [][NextWalk]_vars

----------------------------------------------------------------------------
(* SpecSweeper: the goroutine of the sweep, scheduled again and again      *)
(* while time passes, on a directory that an earlier run populated and     *)
(* that the hit checks and the reads of requests expire on their side.     *)

NextSweeper ==
    \/ \E r \in Requests : handleGet(r)
    \/ \E r \in Requests : hasRequestInCacheNext(r)
    \/ \E r \in Requests : serveFromCache(r)
    \/ cleanUpStart
    \/ cleanUpOldFiles
    \/ cleanUpWake
    \/ Elapse

SpecSweeper ==
    InitLeftover /\ [][NextSweeper]_vars /\ WF_vars(sweeperStep) /\ WF_vars(Elapse)

----------------------------------------------------------------------------
(* SpecMethods: clients that send GET, HEAD and OPTIONS for one URL, with  *)
(* no --cache-timeout.                                                     *)

NextMethods ==
    \/ \E r \in Requests : handleSafe(r)
    \/ \E r \in Requests : proxyRequest(r)
    \/ \E r \in Requests : handlerStep(r)
    \/ \E r \in Requests, part \in Parts : populate(r, part)

SpecMethods == Init /\ [][NextMethods]_vars

----------------------------------------------------------------------------
(* SpecRestart: the proxy started, with no --cache-timeout, on the         *)
(* directory of a run that was stopped while it populated the entry of     *)
(* one URL: SetInt and SetHeaders had run, Set had not.                    *)

\* the directory an earlier run left when it was stopped after the writes
\* of the status and of the headers of resp
HalfPopulated(url, resp) ==
    Remove(Populate(EmptyDir, url, resp),
           getFilePath(getRequestCacheKey(FALSE, url, EmptyHeader)))

InitRestart ==
    /\ timeout = 0
    /\ uniqueByUser = FALSE
    /\ now = 0
    /\ files = HalfPopulated(ProxiedURL, TaggedResponse)
    /\ req = [r \in Requests |-> IdleRequest]
    /\ wr = [r \in Requests |-> [p \in Parts |-> "none"]]
    /\ sweeper = SweeperAt("start")
    /\ proc = Serving
    /\ call = NoCall

NextRestart ==
    \/ \E r \in Requests : handleGet(r)
    \/ \E r \in Requests : proxyPlain(r)
    \/ \E r \in Requests : handlerStep(r)
    \/ \E r \in Requests, part \in Parts : populate(r, part)
    \/ cleanUpStart

SpecRestart == InitRestart /\ [][NextRestart]_vars

----------------------------------------------------------------------------
(* SpecStatus: the proxy started with a --cache-timeout before an origin   *)
(* that answers with a client error or with a server error, with the clock *)
(* and the sweeper running.                                                *)

\* the directory of an earlier run before an origin that answered 404
InitStatus ==
    /\ timeout \in ExpiringTimeouts
    /\ uniqueByUser = FALSE
    /\ now = 0
    /\ files \in {EmptyDir, Populate(EmptyDir, ProxiedURL, NotFoundResponse)}
    /\ req = [r \in Requests |-> IdleRequest]
    /\ wr = [r \in Requests |-> [p \in Parts |-> "none"]]
    /\ sweeper = SweeperAt("start")
    /\ proc = Serving
    /\ call = NoCall

NextStatus ==
    \/ \E r \in TTLRequests : handleGet(r)
    \/ \E r \in Requests : proxyStatus(r)
    \/ \E r \in Requests : handlerStep(r)
    \/ \E r \in Requests, part \in Parts : populate(r, part)
    \/ cleanUpStart
    \/ cleanUpOldFiles
    \/ cleanUpWake
    \/ Tick

SpecStatus == InitStatus /\ [][NextStatus]_vars

----------------------------------------------------------------------------
(* The claims.                                                             *)

SafeMethodNames == {MethodGet, MethodHead, MethodOptions}

Started(r) == req[r].pc # "idle"
Done(r) == req[r].pc = "done"

\* the handler of request r goes from one call to the next
Steps(r) == req'[r].pc # req[r].pc

\* a call of Has of the hit check of request r returns
Checks(r) ==
    /\ req[r].pc \in {"idle", "has", "has-status", "has-headers"}
    /\ req'[r].pc \in {"has-status", "has-headers", "hit", "proxy"}
    /\ Steps(r) /\ "Has" \in req'[r].ops

\* request r takes a step of its hit check: a call of the system or a
\* reading of the clock inside a call of Has
InHitCheck(r) ==
    /\ req[r].pc \in {"idle", "has", "has-status", "has-headers"}
    /\ req'[r] # req[r] /\ "Has" \in req'[r].ops

\* the file the call of Has in the step of request r is about
HasPath(r) ==
    getFilePath(req'[r].key \o (IF req[r].pc = "has-status" THEN StatusSuffix
                                ELSE IF req[r].pc = "has-headers" THEN HeadersSuffix
                                ELSE <<>>))

\* the step of request r decides a miss
Misses(r) == Checks(r) /\ req'[r].pc = "proxy"

\* the X-Cache value the client receives
XCache(r) == HeaderGet(req[r].w.header, XCacheName)

\* the three files of the entry of key k
EntryPaths(k) ==
    {getFilePath(k), getFilePath(k \o StatusSuffix), getFilePath(k \o HeadersSuffix)}

EntryPresent(k) == \A path \in EntryPaths(k) : path \in DOMAIN files

\* the key of the one URL the clients of Spec and SpecTTL request
ProxiedKey == getRequestCacheKey(uniqueByUser, ProxiedURL, ProxiedHeader)

\* C1, as stated: a request whose method is not GET, HEAD or OPTIONS calls
\* no operation of the cache store, whatever the store holds.
C1_AsStated ==
    \A r \in Requests :
        Started(r) /\ req[r].method \notin SafeMethodNames => req[r].ops = {}

\* C1, amended: a request whose method is, compared without regard to
\* letter case, none of GET, HEAD and OPTIONS calls no operation of the
\* cache store, starts no population write, and every step of its handler
\* leaves every stored file unchanged.
C1_Bypass ==
    [][\A r \in Requests :
          (Steps(r) /\ ToUpper(req'[r].method) \notin SafeMethodNames)
          => /\ req'[r].ops = {}
             /\ \A part \in Parts : wr'[r][part] = "none"
             /\ files' = files]_vars

\* a POST request answered while the entry of the same URL is in the store
C1_Witness ==
    \E r \in Requests :
        /\ Done(r) /\ req[r].method = MethodPost /\ req[r].src = "origin"
        /\ EntryPresent(ProxiedKey)

\* C2: the response to a request with a non-safe method (compared without
\* regard to letter case) carries X-Cache: MISS, whatever the origin did.
C2_BypassTaggedMiss ==
    \A r \in Requests :
        Done(r) /\ ToUpper(req[r].method) \notin SafeMethodNames
        => XCache(r) = Str("MISS")

\* C3: the response to a safe request carries X-Cache: HIT exactly when it
\* was read from the store and X-Cache: MISS exactly when the request was
\* sent to the origin.
C3_TagMatchesSource ==
    \A r \in Requests :
        Done(r) /\ ToUpper(req[r].method) \in SafeMethodNames
        => /\ XCache(r) = Str("HIT") <=> req[r].src = "cache"
           /\ XCache(r) = Str("MISS") <=> req[r].src \in {"origin", "error"}

\* no other request than r1 has started population writes
OnlyWriter(r1) ==
    \A r3 \in Requests \ {r1} : \A part \in Parts : wr[r3][part] = "none"

\* no file of the entry has expired
NotExpired(k) ==
    timeout > 0 =>
        \A path \in EntryPaths(k) :
            path \in DOMAIN files /\ now - files[path].mtime <= timeout

\* the three files of the entry of key k are on disk and none has expired
Unexpired(k) == EntryPresent(k) /\ NotExpired(k)

\* the headers of a response other than X-Cache
Untagged(h) == [n \in DOMAIN h \ {XCacheName} |-> h[n]]

\* the second GET of C4: r1 populated the entry alone before the hit check
\* of r2 began, nothing expired
SecondGet(r1, r2) ==
    /\ r1 # r2
    /\ Populated(r1) /\ req[r1].method = MethodGet
    /\ OnlyWriter(r1)
    /\ req'[r2].method = MethodGet /\ req'[r2].key = req[r1].key
    /\ r1 \in req'[r2].after
    /\ NotExpired(req[r1].key)

\* the second GET of C4 is answered from the store with the first response
SameResponse(r1, r2, tag) ==
    /\ req'[r2].src = "cache"
    /\ req'[r2].resp = NoResponse
    /\ req'[r2].w.status = req[r1].w.status
    /\ req'[r2].w.body = req[r1].w.body
    /\ Untagged(req'[r2].w.header) = Untagged(req[r1].w.header)
    /\ tag => HeaderGet(req'[r2].w.header, XCacheName) = Str("HIT")

\* C4: after a GET was answered by the origin and its three writes are
\* complete, the next GET with the same key (nothing expired or cleared,
\* no other population) misses at none of the three calls of its hit check
\* and is answered, without a request to the origin, with the status, the
\* body and the headers of the first response and X-Cache: HIT.
C4_HitAfterMiss ==
    [][\A r1, r2 \in Requests :
          (Steps(r2) /\ SecondGet(r1, r2))
          => /\ req'[r2].pc # "proxy"
             /\ req'[r2].pc = "done" => SameResponse(r1, r2, TRUE)]_vars

\* the second response but for its X-Cache value: status, body and the
\* other headers are those of the first response, read from the store
C4_HitAfterMissUntagged ==
    [][\A r1, r2 \in Requests :
          (Steps(r2) /\ SecondGet(r1, r2))
          => /\ req'[r2].pc # "proxy"
             /\ req'[r2].pc = "done" => SameResponse(r1, r2, FALSE)]_vars

\* C5: when the fetch fails the client gets a 5xx status, no population
\* write is started for the request, and the failing call leaves the store
\* as it was.
C5_FetchFailure ==
    [][\A r \in Requests :
          req'[r].src = "error"
          => /\ req'[r].w.status \in 500..599
             /\ \A part \in Parts : wr'[r][part] = "none"
             /\ req'[r].ops \cap {"Set", "SetInt", "SetHeaders"} = {}
             /\ (req[r].src # "error" => files' = files)]_vars

\* a safe request that missed and whose fetch failed
C5_Witness ==
    \E r \in Requests :
        Done(r) /\ req[r].src = "error" /\ req[r].caching
        /\ req[r].w.status = 500

\* C6: a response answered by the origin carries the origin's status, the
\* origin's body and every value of every header the origin sent, and no
\* other header than X-Cache (an X-Cache header of the origin set aside).
C6_PassThrough ==
    \A r \in Requests :
        Done(r) /\ req[r].src = "origin"
        => /\ req[r].w.status = req[r].resp.status
           /\ req[r].w.body = req[r].resp.body
           /\ Untagged(req[r].w.header) = Untagged(req[r].resp.header)

Keyed(r) == req[r].pc = "keyed"

UserAgentOf(r) == HeaderGet(req[r].header, UserAgentName)
CookieOf(r) == HeaderGet(req[r].header, CookieName)

\* C7: with uniqueness off the key is the digest of the URL alone, the same
\* for every User-Agent and Cookie; with uniqueness on, a request with no
\* User-Agent and no Cookie gets that same key.
C7_KeyOfURL ==
    /\ \A r1, r2 \in Requests :
          Keyed(r1) /\ Keyed(r2) /\ ~uniqueByUser /\ req[r1].url = req[r2].url
          => req[r1].key = req[r2].key
    /\ \A r \in Requests :
          Keyed(r) /\ (~uniqueByUser \/ (UserAgentOf(r) = <<>> /\ CookieOf(r) = <<>>))
          => req[r].key = MD5Hex(req[r].url)

\* with uniqueness off, two requests to one URL with different headers
C7_Witness ==
    \E r1, r2 \in Requests :
        /\ Keyed(r1) /\ Keyed(r2) /\ ~uniqueByUser
        /\ req[r1].url = req[r2].url
        /\ UserAgentOf(r1) # UserAgentOf(r2) /\ CookieOf(r1) # CookieOf(r2)
        /\ req[r1].key = req[r2].key

\* how many of URL, User-Agent value and Cookie value differ
Differences(r1, r2) ==
    (IF req[r1].url # req[r2].url THEN 1 ELSE 0)
    + (IF UserAgentOf(r1) # UserAgentOf(r2) THEN 1 ELSE 0)
    + (IF CookieOf(r1) # CookieOf(r2) THEN 1 ELSE 0)

\* C8: with uniqueness on, two requests that differ in exactly one of the
\* URL, the User-Agent value and the Cookie value have different keys.
C8_OneChangeNewKey ==
    \A r1, r2 \in Requests :
        Keyed(r1) /\ Keyed(r2) /\ uniqueByUser /\ Differences(r1, r2) = 1
        => req[r1].key # req[r2].key

\* with uniqueness on, two requests that differ in the Cookie value only
C8_Witness ==
    \E r1, r2 \in Requests :
        /\ Keyed(r1) /\ Keyed(r2) /\ uniqueByUser
        /\ Differences(r1, r2) = 1 /\ CookieOf(r1) # CookieOf(r2)
        /\ UserAgentOf(r1) # <<>> /\ CookieOf(r1) # <<>> /\ CookieOf(r2) # <<>>
        /\ req[r1].key # req[r2].key

\* C9: with uniqueness on, two requests that differ in the URL, in the
\* User-Agent (value or absence) or in the Cookie (value or absence) never
\* have the same key.
C9_UniquePerUser ==
    \A r1, r2 \in Requests :
        /\ Keyed(r1) /\ Keyed(r2) /\ uniqueByUser
        /\ <<req[r1].url, req[r1].header>> # <<req[r2].url, req[r2].header>>
        => req[r1].key # req[r2].key

\* C10: with a timeout, every step of a hit check made while the three
\* files of the entry are there and none is older than the timeout leaves
\* the directory as it is and is no miss, and the return of the third call
\* decides HIT; a call of Has returns whether its file is there when it
\* ends; a miss is tagged MISS; the hit check removes only files older than
\* the timeout; and a request whose hit check began when a file of its
\* entry was older than the timeout is no hit, whatever the sweeper did.
C10_Expiration ==
    [][\A r \in Requests :
          (InHitCheck(r) /\ timeout > 0)
          => /\ Unexpired(req'[r].key)
                  => /\ files' = files
                     /\ req'[r].pc # "proxy"
                     /\ (Checks(r) /\ req[r].pc = "has-headers")
                          => /\ req'[r].pc = "hit"
                             /\ HeaderGet(req'[r].w.header, XCacheName) = Str("HIT")
             /\ Checks(r) => (req'[r].pc = "proxy" <=> HasPath(r) \notin DOMAIN files')
             /\ req'[r].pc = "proxy"
                  => HeaderGet(req'[r].w.header, XCacheName) = Str("MISS")
             /\ \A path \in DOMAIN files \ DOMAIN files' :
                    now - files[path].mtime > timeout
             /\ req'[r].stale # {} => req'[r].pc # "hit"]_vars

\* a request began its hit check on an entry an earlier run wrote in full,
\* no file of which was older than the timeout; the clock went on inside
\* Has(key), after the test of the body; the call removed the status and
\* the headers and returned true, the call on the status decided MISS
\* before the sweeper walked the directory, and the body, older than the
\* timeout, is still there
C10_Witness ==
    \E r \in Requests :
        /\ req[r].pc = "proxy" /\ req[r].caching /\ req[r].stale = {}
        /\ sweeper.pc = "start"
        /\ DOMAIN files = {getFilePath(req[r].key)}
        /\ \A path \in DOMAIN files : now - files[path].mtime > timeout

\* the file at path was not requested since it was written: every request
\* that looked up the entry it is of wrote it afterwards
NotRequestedAgain(path) ==
    \A r \in Requests :
        (req[r].pc # "idle" /\ path \in EntryPaths(req[r].key))
        => \E part \in Parts :
              /\ path = getFilePath(TaskKey(r, part))
              /\ wr[r][part] \in {"open", "done"}

\* C11: with a timeout, as long as the clock never advanced while a walk of
\* the sweeper was due or under way and the disk never refused the listing
\* of the directory or the removal of a file, no file that was not
\* requested since it was written is older than twice the timeout.
C11_SweptInTime ==
    (timeout > 0 /\ ~sweeper.late /\ ~sweeper.denied) =>
        \A path \in DOMAIN files :
            NotRequestedAgain(path) => now - files[path].mtime <= 2 * timeout

\* C12: with timeout 0 no step removes a file, the sweeper goes from its
\* start to its exit and nowhere else, and each call of the hit check on a
\* file that is there finds it, whatever its age, so that a request that
\* finds the three files of its entry is a hit.
C12_NeverExpires ==
    [][timeout = 0 =>
          /\ \A path \in DOMAIN files : path \in DOMAIN files'
          /\ sweeper'.pc \in {"start", "exited"}
          /\ (sweeper'.pc # sweeper.pc => files' = files)
          /\ \A r \in Requests :
                (Checks(r) /\ HasPath(r) \in DOMAIN files)
                => /\ req'[r].pc # "proxy"
                   /\ files' = files
                   /\ req[r].pc = "has-headers" => req'[r].pc = "hit"]_vars

\* a hit on files two ticks old, after the sweeper exited
C12_Witness ==
    \E r \in Requests :
        /\ timeout = 0 /\ sweeper.pc = "exited"
        /\ Done(r) /\ req[r].src = "cache"
        /\ EntryPresent(req[r].key)
        /\ \A path \in EntryPaths(req[r].key) : now - files[path].mtime >= 2

\* the keys of the entries earlier runs populated, and their sub-values
LeftoverKeys ==
    LET keys == {getRequestCacheKey(FALSE, Str(u), EmptyHeader) : u \in {"/a", "/b"}}
    IN  keys \cup {k \o StatusSuffix : k \in keys} \cup {k \o HeadersSuffix : k \in keys}

\* ClearAll has run to its end: the directory could be listed, and main
\* called os.Exit(0)
Cleared == proc.pc = "exited" /\ proc.clearCache /\ proc.exit = 0

\* Has, Get, GetInt, GetHeaders and the hit check of the dispatcher miss
\* on every key
AllMiss ==
    \A k \in LeftoverKeys :
        /\ ~Has(files, k, now).ok
        /\ ~Get(files, k, now).ok
        /\ ~GetInt(files, k, now).ok
        /\ ~GetHeaders(files, k, now).ok
        /\ ~hasRequestInCache(files, k, now).ok

IsSchemeAndHost(origin) ==
    /\ Len(origin) >= 5
    /\ ToLowerName(origin[1]) \in {"http", "https"}
    /\ SubSeq(origin, 2, 4) = <<":", "/", "/">>
    /\ IsName(origin[5])
    /\ \/ Len(origin) = 5
       \/ /\ Len(origin) > 6 /\ origin[6] = ":"
          /\ \A i \in 7..Len(origin) : IsDigit(origin[i])

\* a scheme and a host and nothing else, but for the "?" of an empty query
IsBareOrigin(origin) ==
    \/ IsSchemeAndHost(origin)
    \/ /\ Len(origin) > 0 /\ origin[Len(origin)] = "?"
       /\ IsSchemeAndHost(SubSeq(origin, 1, Len(origin) - 1))

\* C19: an origin that is not a bare scheme and host is rejected before
\* the server starts: the listening proxy has a bare origin.
C19_BareOrigin ==
    proc.pc = "listening" => IsBareOrigin(proc.origin)

\* C20: the invocation with port 3000 and the origin https://github.com/
\* does not end in Parse: it goes on to the listening server.
C20_ReadmeInvocation ==
    (/\ proc.port = 3000 /\ proc.origin = ReadmeOrigin
     /\ ~proc.clearCache /\ ~proc.help)
    => proc.pc # "exited"

\* a reading call of op on the key the call before it wrote with setter
ReadsBack(setter, op) ==
    call.op = setter /\ call'.op = op /\ call'.key = call.key

\* C14: Get right after Set on the same key returns the payload and true,
\* GetInt right after SetInt returns the integer and true, GetHeaders
\* right after SetHeaders returns true and the same names with the same
\* values in the same order.
C14_RoundTrip ==
    [][/\ ReadsBack("Set", "Get")
            => call'.ret = [data |-> call.arg, ok |-> TRUE]
       /\ ReadsBack("SetInt", "GetInt")
            => call'.ret = [val |-> call.arg, ok |-> TRUE]
       /\ ReadsBack("SetHeaders", "GetHeaders")
            => call'.ret = [h |-> call.arg, ok |-> TRUE]]_vars

\* C14 for header lines that fit the buffer of the Scanner
C14_RoundTripOfShortLines ==
    [][/\ ReadsBack("Set", "Get")
            => call'.ret = [data |-> call.arg, ok |-> TRUE]
       /\ ReadsBack("SetInt", "GetInt")
            => call'.ret = [val |-> call.arg, ok |-> TRUE]
       /\ (ReadsBack("SetHeaders", "GetHeaders")
             /\ \A n \in DOMAIN call.arg : \A i \in 1..Len(call.arg[n]) :
                    ByteLen(call.arg[n][i]) < MaxScanTokenSize)
            => call'.ret = [h |-> call.arg, ok |-> TRUE]]_vars

\* C16, as stated: with the body of key K alone in the store, the store's
\* Has(K) returns false.
C16_AsStated ==
    [][(/\ call'.op = "Has" /\ call'.pc = "returned" /\ call' # call
        /\ call'.onlyBody /\ OnlyBody(call'.key))
          => ~call'.ret.ok]_vars

\* C16, amended: with the body of key K alone in the store, the hit check
\* of the dispatcher, hasRequestInCache(K), returns false, with and
\* without a timeout, whatever the age of the body and however the clock
\* advances inside the call: a hit check that began when the body alone
\* was stored returns false, and so does one that returns while the body
\* alone is stored.
C16_PartialEntryMasked ==
    [][(/\ call'.op = "hasRequestInCache" /\ call'.pc = "returned" /\ call' # call
        /\ call'.onlyBody \/ OnlyBody(call'.key))
          => ~call'.ret.ok]_vars

\* with a timeout, the hit check answered false on an entry whose body
\* alone was stored when it began, is still stored and has not expired
C16_Witness ==
    /\ call.op = "hasRequestInCache" /\ call.pc = "returned" /\ ~call.ret.ok
    /\ call.onlyBody /\ OnlyBody(call.key)
    /\ timeout > 0 /\ now = timeout
    /\ files[getFilePath(call.key)].mtime = 0
    /\ files[getFilePath(call.key)].data = <<"p", "q">>

\* the step of request r is the third call of its hit check and decides HIT
TakesHit(r) == req[r].pc = "has-headers" /\ req'[r].pc = "hit"

\* a population write of key k is between its os.Create and its file.Write
MidWrite(k) ==
    \E r1 \in Requests, part \in Parts :
        req[r1].key = k /\ wr[r1][part] = "open"

\* C15: a request is tagged HIT only when no write of the body, the status
\* or the headers of its key is under way: each of the three files holds
\* all the bytes it was given.
C15_NoTornHit ==
    [][\A r \in Requests : TakesHit(r) => ~MidWrite(req'[r].key)]_vars

\* some sub-value of key k cannot be read, or its status does not parse,
\* or a header line of it has no separator
Unreadable(k) ==
    \/ ~Get(files, k, now).ok
    \/ ~GetInt(files, k \o StatusSuffix, now).ok
    \/ ~GetHeaders(files, k \o HeadersSuffix, now).ok

\* C17: a safe request whose entry cannot be read in full is sent to the
\* origin and tagged MISS: none is tagged HIT.
C17_UnreadableIsMiss ==
    [][\A r \in Requests :
          (Checks(r) /\ req[r].pc = "has-headers" /\ Unreadable(req'[r].key))
          => /\ req'[r].pc = "proxy"
             /\ HeaderGet(req'[r].w.header, XCacheName) = Str("MISS")]_vars

\* the values the Sets of key k started so far were given
ValuesSet(k) ==
    UNION {TaskValues(r, part) :
             <<r, part>> \in {x \in Requests \X Parts :
                                wr[x[1]][x[2]] # "none" /\ TaskKey(x[1], x[2]) = k}}

\* the keys the Sets started so far write
KeysSet ==
    {TaskKey(x[1], x[2]) : x \in {y \in Requests \X Parts : wr[y[1]][y[2]] # "none"}}

\* C21: a Get on a key that Sets write finds no file, or the whole value
\* one of these Sets was given: never an empty or a partial value.
C21_AtomicWrite ==
    \A k \in KeysSet :
        Get(files, k, now).ok => Get(files, k, now).data \in ValuesSet(k)

\* the responses whose status and body the store was given under key k:
\* that of the earlier run, and those the origin gave to the requests of
\* the key that missed
GivenResponses(k) ==
    {PlainResponse} \cup
    {req[r1].resp : r1 \in {q \in Requests : /\ req[q].src = "origin" /\ req[q].caching
                                             /\ req[q].key = k}}

\* the response request r received has the status and the body that the
\* store was given under the key of r
StoredResponse(r) ==
    \E resp \in GivenResponses(req[r].key) :
        /\ req[r].w.status = resp.status
        /\ req[r].w.body = resp.body

\* C22: a response read from the store has the stored status and the
\* stored body, also when entries expire between the hit decision and the
\* reads.
C22_HitServesStored ==
    \A r \in Requests : Done(r) /\ req[r].src = "cache" => StoredResponse(r)

\* the stored value of key k is older than the TTL
StoredValueExpired(k) ==
    /\ timeout > 0
    /\ Exists(files, getFilePath(k))
    /\ Expired(files, getFilePath(k), now)

\* C23: with a timeout, Has and Get on a key whose stored value is older
\* than the timeout leave none of the three files of the entry, and when
\* the call of Has on the key of a request, made when the stored value was
\* older than the timeout, returns, none of the three files remains.
C23_WholeEntryDeleted ==
    /\ [](StoredValueExpired(ProxiedKey)
            => /\ EntryPaths(ProxiedKey) \cap DOMAIN Has(files, ProxiedKey, now).f = {}
               /\ EntryPaths(ProxiedKey) \cap DOMAIN Get(files, ProxiedKey, now).f = {})
    /\ [][\A r \in Requests :
            (Checks(r) /\ req[r].pc = "has" /\ 1 \in req[r].stale)
            => EntryPaths(req[r].key) \cap DOMAIN files' = {}]_vars

\* no population write is under way
WritesComplete ==
    \A r \in Requests : \A part \in Parts : wr[r][part] \in {"none", "done"}

\* C24: once the writes of every request that missed are complete, each
\* file they wrote holds the whole value given to one of these writes (the
\* one that came last), never a mix of two values.
C24_LastWriterWins ==
    WritesComplete =>
        \A k \in KeysSet :
            /\ Exists(files, getFilePath(k))
            /\ files[getFilePath(k)].data \in ValuesSet(k)


\* C25: the handler of a request that missed starts the three writes and
\* goes on; it then answers with the origin's status and body whatever
\* became of the writes in between, and no later step (a write that
\* completes, fails or stays pending) changes the response.
C25_ResponseApartFromWrites ==
    [][\A r \in Requests :
          /\ (req[r].pc = "proxy" /\ req'[r].src = "origin" /\ req[r].caching)
             => /\ req'[r].pc = "respond"
                /\ \A part \in Parts : wr'[r][part] = "go"
                /\ files' = files
          /\ (req[r].pc = "respond" /\ Steps(r))
             => /\ req'[r].pc = "done"
                /\ req'[r].w = responseFromOrigin(
                                  [NoResponse EXCEPT !.header =
                                      HeaderSet(EmptyHeader, XCacheName, Str("MISS"))],
                                  req[r].resp)
                /\ req'[r].w.status = req[r].resp.status
                /\ req'[r].w.body = req[r].resp.body
                /\ wr' = wr /\ files' = files
          /\ (req[r].pc \in {"respond", "done"} /\ req[r].src = "origin" /\ ~Steps(r))
             => req'[r].w = req[r].w]_vars

\* a request answered with the origin's response after one of its writes
\* failed at os.Create and another at file.Write, the third not yet begun
C25_Witness ==
    \E r \in Requests :
        /\ Done(r) /\ req[r].src = "origin" /\ req[r].caching
        /\ wr[r]["body"] = "failed" /\ ~Exists(files, getFilePath(req[r].key))
        /\ wr[r]["status"] = "failed"
        /\ Exists(files, getFilePath(req[r].key \o StatusSuffix))
        /\ wr[r]["headers"] = "go"
        /\ req[r].w.status = req[r].resp.status
        /\ req[r].w.body = req[r].resp.body


\* C26: with a positive TTL the sweeper never leaves its loop; a removal
\* that fails is followed by the visit of the names that are left; a walk
\* that ends with an error is followed by the sleep; and, the goroutine
\* being scheduled and time passing, a walk starts again and again.
C26_SweeperRunsForever ==
    /\ [](sweeper.pc # "start" => sweeper.pc # "exited")
    /\ [][/\ (sweeper.pc = "remove" /\ sweeper' # sweeper)
             => /\ sweeper'.pc = "visit"
                /\ sweeper'.names = Tail(sweeper.names)
          /\ (sweeper.pc \in {"walk", "visit", "since"} /\ sweeper'.pc # sweeper.pc)
             => sweeper'.pc \in {"visit", "since", "remove", "walked", "sleep"}
          /\ (sweeper.pc = "walked" /\ sweeper' # sweeper)
             => sweeper'.pc = "sleep" /\ sweeper'.err]_vars
    /\ []<>(sweeper.pc = "walk")

\* the sleep after a walk that ended with an error, in which one removal
\* failed and a later file was removed
C26_Witness ==
    /\ sweeper.pc = "sleep"
    /\ LoggedWalkError
    /\ getFilePath(ProxiedKey) \in LoggedRemoveErrors
    /\ Exists(files, getFilePath(ProxiedKey))
    /\ ~Exists(files, getFilePath(ProxiedKey \o HeadersSuffix))

\* C29: a file leaves the directory only when its age exceeds the TTL at
\* the moment it is removed.
C29_OnlyStaleRemoved ==
    [][\A path \in DOMAIN files :
          path \notin DOMAIN files' => timeout > 0 /\ Expired(files, path, now)]_vars


\* request r2, of another method than r1, comes when r1 has populated the
\* entry alone
OtherMethod(r1, r2) ==
    /\ r1 # r2
    /\ Populated(r1) /\ OnlyWriter(r1)
    /\ r1 \in req'[r2].after
    /\ req[r1].method \in SafeMethodNames /\ req'[r2].method \in SafeMethodNames
    /\ req'[r2].method # req[r1].method
    /\ req'[r2].url = req[r1].url /\ req'[r2].header = req[r1].header

\* C27: two requests with safe methods, the same URL and the same headers
\* have the same key whatever their methods, and a request that comes
\* after a request of another method populated the entry misses at none of
\* the calls of its hit check and is answered with the stored status, body
\* and headers.
C27_KeyWithoutMethod ==
    [][\A r1, r2 \in Requests :
          (Steps(r2) /\ OtherMethod(r1, r2))
          => /\ req'[r2].key = req[r1].key
             /\ req'[r2].pc # "proxy"
             /\ req'[r2].pc = "done" => SameResponse(r1, r2, FALSE)]_vars

\* a GET answered from the entry that a HEAD populated, which holds the
\* status and the headers of the origin's response and the empty body the
\* client of the proxy read for the HEAD
C27_Witness ==
    \E r1, r2 \in Requests :
        /\ Populated(r1) /\ req[r1].method = MethodHead
        /\ req[r1].resp.status = PlainResponse.status /\ req[r1].resp.body = <<>>
        /\ Done(r2) /\ req[r2].method = MethodGet /\ req[r2].src = "cache"
        /\ req[r2].key = req[r1].key
        /\ req[r2].w.body = req[r1].resp.body


\* the status, the body and the headers (X-Cache apart) of response w are
\* those the store keeps of the origin's response resp
FromOneFetch(w, resp) ==
    /\ w.status = resp.status
    /\ w.body = resp.body
    /\ Untagged(w.header) = Untagged(CopyHeaders(EmptyHeader, resp.header))

\* C28: the status, the body and the headers of a response read from the
\* store were all stored from one response of the origin.
C28_HitFromOneFetch ==
    \A r \in Requests :
        Done(r) /\ req[r].src = "cache"
        => \E resp \in OriginResponses : FromOneFetch(req[r].w, resp)


\* a safe request has missed and waits for the origin
Missed == \E r \in Requests : req[r].pc = "proxy" /\ req[r].caching

\* C30: with no TTL, an origin that answers and goroutines that are
\* scheduled, a miss is followed by a point from which the three files of
\* the entry stay on disk; and each call of a hit check made while the
\* three files are there finds its file, the third deciding HIT, and the
\* request is then answered from the store, tagged HIT, with no request to
\* the origin.
C30_PopulationCompletes ==
    /\ Missed ~> [](EntryPresent(ProxiedKey) /\ WritesComplete)
    /\ [][\A r \in Requests :
            /\ (Checks(r) /\ EntryPresent(ProxiedKey))
               => /\ req'[r].pc # "proxy"
                  /\ req[r].pc = "has-headers" => req'[r].pc = "hit"
            /\ (req[r].pc \in {"hit", "hit-headers", "hit-status"} /\ Steps(r))
               => /\ req'[r].pc \in {"hit-headers", "hit-status", "done"}
                  /\ req'[r].src \in {"none", "cache"}
                  /\ req'[r].pc = "done"
                       => /\ req'[r].src = "cache"
                          /\ HeaderGet(req'[r].w.header, XCacheName) = Str("HIT")]_vars

\* a request answered from the store after a miss whose three writes are
\* complete
C30_Witness ==
    \E r1, r2 \in Requests :
        /\ Populated(r1) /\ WritesComplete /\ EntryPresent(ProxiedKey)
        /\ Done(r2) /\ req[r2].src = "cache" /\ XCache(r2) = Str("HIT")


\* the three keys of the entry of key k
EntryKeys(k) == {k, k \o StatusSuffix, k \o HeadersSuffix}

\* C31: while no file of an entry has expired, Has, Get, GetInt and
\* GetHeaders on its keys, the hit check and the reads of a hit, and every
\* step a request takes inside them, leave every file of the directory as
\* it is, content and modification time: a read does not renew an entry.
C31_ReadsRenewNothing ==
    /\ [](Unexpired(ProxiedKey) =>
            /\ \A k \in EntryKeys(ProxiedKey) :
                  /\ Has(files, k, now).f = files
                  /\ Get(files, k, now).f = files
                  /\ GetInt(files, k, now).f = files
                  /\ GetHeaders(files, k, now).f = files
            /\ hasRequestInCache(files, ProxiedKey, now).f = files
            /\ responseFromCache(files, NoResponse, ProxiedKey, now).f = files)
    /\ [][\A r \in Requests :
            (req'[r] # req[r] /\ wr' = wr /\ Unexpired(ProxiedKey))
            => files' = files]_vars

\* a request answered from the store one tick after the entry was written,
\* the three files still bearing the time of their writes
C31_Witness ==
    \E r \in Requests :
        /\ Done(r) /\ req[r].src = "cache" /\ req[r].w.body = PlainResponse.body
        /\ timeout > 0 /\ now = timeout
        /\ Unexpired(ProxiedKey)
        /\ \A path \in EntryPaths(ProxiedKey) : files[path].mtime = 0


\* C32: whatever the status of the origin's response to a safe request
\* that missed, the handler starts the three writes (body, status,
\* headers) under the key of the request; as long as the three files they
\* wrote are there and have not expired, the hit check finds the entry and
\* the reads of a hit return that response, its status included; and a
\* request whose reads find the entry of an error response an earlier run
\* stored is answered with it, tagged HIT.
C32_EveryStatusStored ==
    /\ [][\A r \in Requests :
            /\ (req[r].pc = "proxy" /\ req[r].caching /\ req'[r].src = "origin")
               => /\ \A part \in Parts : wr[r][part] = "none" /\ wr'[r][part] = "go"
                  /\ {"Set", "SetInt", "SetHeaders"} \subseteq req'[r].ops
                  /\ req'[r].key = req[r].key
            /\ (req[r].pc = "hit-status" /\ Steps(r) /\ Unexpired(req[r].key))
               => /\ req'[r].pc = "done" /\ req'[r].src = "cache"
                  /\ req'[r].resp = NoResponse
                  /\ req'[r].w.status = NotFoundResponse.status
                  /\ req'[r].w.body = NotFoundResponse.body
                  /\ HeaderGet(req'[r].w.header, XCacheName) = Str("HIT")]_vars
    /\ [](\A r \in Requests :
            (Populated(r) /\ Unexpired(req[r].key))
            => /\ hasRequestInCache(files, req[r].key, now).ok
               /\ LET w == responseFromCache(files, NoResponse, req[r].key, now).w
                  IN  /\ w.status = req[r].resp.status
                      /\ w.body = req[r].resp.body)

\* the 503 of the origin stored in place of the 404 an earlier run left,
\* which had expired
C32_Witness ==
    \E r \in Requests :
        /\ Populated(r) /\ req[r].resp.status = 503
        /\ Unexpired(req[r].key)
        /\ now = MaxTime
        /\ GetInt(files, req[r].key \o StatusSuffix, now).val = 503
        /\ Get(files, req[r].key, now).data = UnavailableResponse.body

====
